---------------------------- MODULE Spec2Model ----------------------------
(***************************************************************************)
(* Citation subsystem of main.js: the bibliography loader                  *)
(* (ensureBibLoaded / pickBibLocal), the index (buildBibIndex), the        *)
(* resolver (findBibEntryFor), the synthesis fallback (bibtexFromPub) and  *)
(* the presenter (handleCiteClick / showCiteModal), together with the two  *)
(* JSON file prompts (showLocalPicker, showPinsLocalPicker).               *)
(*                                                                         *)
(* A JavaScript string is a sequence of one-character strings; '' is <<>>. *)
(* Positions inside the text operators are 0-based, as in the source.      *)
(***************************************************************************)
EXTENDS Integers, Sequences, FiniteSets, TLC

(***************************************************************************)
(* Characters and generic string helpers (String.prototype methods).       *)
(***************************************************************************)
UpperChars == <<"A","B","C","D","E","F","G","H","I","J","K","L","M",
                "N","O","P","Q","R","S","T","U","V","W","X","Y","Z">>
LowerChars == <<"a","b","c","d","e","f","g","h","i","j","k","l","m",
                "n","o","p","q","r","s","t","u","v","w","x","y","z">>
DigitChars == {"0","1","2","3","4","5","6","7","8","9"}
LowerSet == {LowerChars[i] : i \in DOMAIN LowerChars}
UpperSet == {UpperChars[i] : i \in DOMAIN UpperChars}
LowerAlnum == LowerSet \cup DigitChars
WordChars == LowerSet \cup UpperSet \cup DigitChars \cup {"_"}
SpaceChars == {" ", "\n", "\t", "\r"}

LowerOf == [c \in UpperSet |-> LowerChars[CHOOSE i \in DOMAIN UpperChars : UpperChars[i] = c]]
toLowerCaseChar(c) == IF c \in UpperSet THEN LowerOf[c] ELSE c
toLowerCase(s) == [i \in 1..Len(s) |-> toLowerCaseChar(s[i])]

\* s[j] with a 0-based j; "" stands for undefined (j past the end).
At(s, j) == IF j >= 0 /\ j < Len(s) THEN s[j + 1] ELSE ""
\* s.slice(a, b) with 0 <= a, b
slice(s, a, b) == SubSeq(s, a + 1, IF b > Len(s) THEN Len(s) ELSE b)
startsWith(s, p) == Len(s) >= Len(p) /\ SubSeq(s, 1, Len(p)) = p
includes(hay, needle) ==
    \E i \in 0..(Len(hay) - Len(needle)) : SubSeq(hay, i + 1, i + Len(needle)) = needle

RECURSIVE trimStart(_)
trimStart(s) == IF s # <<>> /\ Head(s) \in SpaceChars THEN trimStart(Tail(s)) ELSE s
RECURSIVE trimEnd(_)
trimEnd(s) ==
    IF s # <<>> /\ s[Len(s)] \in SpaceChars THEN trimEnd(SubSeq(s, 1, Len(s) - 1)) ELSE s
trim(s) == trimEnd(trimStart(s))

\* text.indexOf(ch, from): -1 when absent
indexOf(s, ch, from) ==
    IF \E i \in from..(Len(s) - 1) : At(s, i) = ch
    THEN CHOOSE i \in from..(Len(s) - 1) :
             At(s, i) = ch /\ \A g \in from..(i - 1) : At(s, g) # ch
    ELSE -1

\* first position >= j that holds no whitespace (the end of a greedy \s*)
RECURSIVE skipSpace(_, _)
skipSpace(s, j) == IF At(s, j) \in SpaceChars THEN skipSpace(s, j + 1) ELSE j

\* s.replace(/[cls]/g, '')
RECURSIVE removeChars(_, _)
removeChars(s, cls) ==
    IF s = <<>> THEN <<>>
    ELSE IF Head(s) \in cls THEN removeChars(Tail(s), cls)
         ELSE <<Head(s)>> \o removeChars(Tail(s), cls)

\* s.replace(/[^keep]+/g, rep): every maximal run of characters outside keep
\* becomes rep; inRun says the previous character was part of such a run.
RECURSIVE replaceRunsOutside(_, _, _, _)
replaceRunsOutside(s, keep, rep, inRun) ==
    IF s = <<>> THEN <<>>
    ELSE IF Head(s) \in keep
         THEN <<Head(s)>> \o replaceRunsOutside(Tail(s), keep, rep, FALSE)
         ELSE (IF inRun THEN <<>> ELSE rep) \o replaceRunsOutside(Tail(s), keep, rep, TRUE)

\* s.replace(/[cls]+/g, rep)
RECURSIVE replaceRunsOf(_, _, _, _)
replaceRunsOf(s, cls, rep, inRun) ==
    IF s = <<>> THEN <<>>
    ELSE IF Head(s) \in cls
         THEN (IF inRun THEN <<>> ELSE rep) \o replaceRunsOf(Tail(s), cls, rep, TRUE)
         ELSE <<Head(s)>> \o replaceRunsOf(Tail(s), cls, rep, FALSE)

RECURSIVE join(_, _)
join(lines, sep) ==
    IF lines = <<>> THEN <<>>
    ELSE IF Len(lines) = 1 THEN lines[1]
         ELSE lines[1] \o sep \o join(Tail(lines), sep)

(***************************************************************************)
(* Values a publication record's field can hold besides a string:          *)
(* Undefined (the key is missing) and NonString (a JSON number, which has  *)
(* no replace or toLowerCase method).                                      *)
(***************************************************************************)
Undefined == <<"#undefined">>
NonString == <<"#number">>
\* what a throwing call yields (a TypeError), and a failed regex match (null)
Thrown == <<"#TypeError">>
NoMatch == <<"#null">>
IsString(v) == v \notin {Undefined, NonString}
\* '' + v
Str(v) ==
    IF v = Undefined THEN <<"u","n","d","e","f","i","n","e","d">>
    ELSE IF v = NonString THEN <<"4","2">>
    ELSE v
\* Boolean(v)
Truthy(v) == v # Undefined /\ v # <<>>
\* v || ''
OrEmpty(v) == IF v = Undefined THEN <<>> ELSE v
Min(a, b) == IF a < b THEN a ELSE b

(***************************************************************************)
(* normDOI and normalizeTitle.                                             *)
(***************************************************************************)
DoiUrlPrefixes ==
    { <<"h","t","t","p",":","/","/","d","o","i",".","o","r","g","/">>,
      <<"h","t","t","p","s",":","/","/","d","o","i",".","o","r","g","/">>,
      <<"h","t","t","p",":","/","/","d","x",".","d","o","i",".","o","r","g","/">>,
      <<"h","t","t","p","s",":","/","/","d","x",".","d","o","i",".","o","r","g","/">> }
\* .replace(/^https?:\/\/(dx\.)?doi\.org\//i, '')
stripDoiUrl(s) ==
    LET P == {p \in DoiUrlPrefixes : startsWith(toLowerCase(s), p)}
    IN  IF P = {} THEN s ELSE SubSeq(s, Len(CHOOSE p \in P : TRUE) + 1, Len(s))
\* .replace(/^\s*doi:\s*/i, '')
stripDoiLabel(s) ==
    LET t == trimStart(s)
    IN  IF startsWith(toLowerCase(t), <<"d","o","i",":">>)
        THEN trimStart(SubSeq(t, 5, Len(t)))
        ELSE s
\* .replace(/[.,;]\s*$/, '')
stripTrailingPunct(s) ==
    LET t == trimEnd(s)
    IN  IF t # <<>> /\ t[Len(t)] \in {".", ",", ";"} THEN SubSeq(t, 1, Len(t) - 1) ELSE s

normDOI(s) ==
    IF s = <<>> THEN <<>>
    ELSE toLowerCase(stripTrailingPunct(stripDoiLabel(stripDoiUrl(trim(s)))))

\* a normalization that turns braces into separators instead of removing them
normalizeTitle_bracesSplit(s) ==
    IF s = <<>> THEN <<>>
    ELSE replaceRunsOf(
           trim(replaceRunsOutside(toLowerCase(s), LowerAlnum, <<" ">>, FALSE)),
           SpaceChars, <<" ">>, FALSE)

normalizeTitle(s) ==
    IF s = <<>> THEN <<>>
    ELSE replaceRunsOf(
           trim(replaceRunsOutside(toLowerCase(removeChars(s, {"{", "}"})),
                                   LowerAlnum, <<" ">>, FALSE)),
           SpaceChars, <<" ">>, FALSE)

(***************************************************************************)
(* splitBibEntries: '@' ... balanced braces.                               *)
(***************************************************************************)
\* a scan that stops at the first closing brace, whatever the depth
RECURSIVE closeBrace_flat(_, _, _)
closeBrace_flat(text, j, depth) ==
    IF j < Len(text) /\ depth > 0
    THEN closeBrace_flat(text, j + 1, IF At(text, j) = "}" THEN 0 ELSE depth)
    ELSE j

\* the inner while loop: the value of j when it ends
RECURSIVE closeBrace(_, _, _)
closeBrace(text, j, depth) ==
    IF j < Len(text) /\ depth > 0
    THEN LET ch == At(text, j)
         IN  closeBrace(text, j + 1,
                        IF ch = "{" THEN depth + 1
                        ELSE IF ch = "}" THEN depth - 1 ELSE depth)
    ELSE j

\* the outer while loop from scan position i
RECURSIVE splitFrom(_, _)
splitFrom(text, i) ==
    IF i >= Len(text) THEN <<>>
    ELSE LET at == indexOf(text, "@", i)
         IN  IF at = -1 THEN <<>>
             ELSE LET brace == indexOf(text, "{", at)
                  IN  IF brace = -1 THEN <<>>
                      ELSE LET j == closeBrace(text, brace + 1, 1)
                           IN  <<slice(text, at, j)>> \o splitFrom(text, j)

splitBibEntries(text) == splitFrom(text, 0)

(***************************************************************************)
(* getBibField: three regular expressions tried in order, each matched     *)
(* leftmost-first as RegExp does.  Every field name the program passes     *)
(* starts with a letter, so \b before it holds exactly when the previous   *)
(* character is not a word character.                                      *)
(***************************************************************************)
\* match of  \bname\s*=  at p (flag i): the position after '=', or -1
matchFieldEq(e, p, name) ==
    IF /\ toLowerCaseChar(At(e, p)) = toLowerCaseChar(name[1])
       /\ (p = 0 \/ At(e, p - 1) \notin WordChars)
       /\ p + Len(name) <= Len(e)
       /\ toLowerCase(slice(e, p, p + Len(name))) = toLowerCase(name)
    THEN LET q == skipSpace(e, p + Len(name))
         IN  IF At(e, q) = "=" THEN q + 1 ELSE -1
    ELSE -1

\* no match of  \bname\s*=  starts at any of the next SkipLen positions: the
\* search goes on behind them
SkipLen == 8
noFieldEq(e, p, name) == \A k \in p..(p + SkipLen - 1) : matchFieldEq(e, k, name) = -1

\* entry.match(/\bname\s*=\s*<open>([\s\S]*?)<close>/i)[1], searched from p
RECURSIVE matchDelimited(_, _, _, _, _)
matchDelimited(e, name, open, close, p) ==
    IF p >= Len(e) THEN NoMatch
    ELSE IF noFieldEq(e, p, name) THEN matchDelimited(e, name, open, close, p + SkipLen)
    ELSE LET q0 == matchFieldEq(e, p, name)
             q  == IF q0 = -1 THEN -1 ELSE skipSpace(e, q0)
             c  == IF q # -1 /\ At(e, q) = open THEN indexOf(e, close, q + 1) ELSE -1
         IN  IF c # -1 THEN slice(e, q + 1, c)
             ELSE matchDelimited(e, name, open, close, p + 1)

\* end of the greedy [^,\n]+ that starts at j
RECURSIVE bareEnd(_, _)
bareEnd(e, j) == IF At(e, j) \in {",", "\n", ""} THEN j ELSE bareEnd(e, j + 1)

\* entry.match(/\bname\s*=\s*([^,\n]+)\s*,/i)[1], searched from p
RECURSIVE matchBare(_, _, _)
matchBare(e, name, p) ==
    IF p >= Len(e) THEN NoMatch
    ELSE IF noFieldEq(e, p, name) THEN matchBare(e, name, p + SkipLen)
    ELSE LET q0 == matchFieldEq(e, p, name)
             q1 == IF q0 = -1 THEN -1 ELSE skipSpace(e, q0)
             h  == bareEnd(e, q1)
         IN  IF q0 = -1 THEN matchBare(e, name, p + 1)
             ELSE IF At(e, q1) \notin {",", ""}
                  THEN (IF At(e, skipSpace(e, h)) = "," THEN slice(e, q1, h)
                        ELSE matchBare(e, name, p + 1))
             \* value empty: the group can only take blanks that \s* gives back
             ELSE IF At(e, q1) = "," /\ \E g \in q0..(q1 - 1) : At(e, g) # "\n"
                  THEN <<" ">>
                  ELSE matchBare(e, name, p + 1)

\* .replace(/,\s*$/, '')
stripTrailingComma(s) ==
    LET t == trimEnd(s)
    IN  IF t # <<>> /\ t[Len(t)] = "," THEN SubSeq(t, 1, Len(t) - 1) ELSE s

\* an extractor that tries the bare pattern before the delimited ones
getBibField_bareFirst(entry, name) ==
    LET m1 == matchDelimited(entry, name, "{", "}", 0)
        m2 == matchDelimited(entry, name, "\"", "\"", 0)
        m3 == matchBare(entry, name, 0)
    IN  IF m3 # NoMatch THEN trim(m3)
        ELSE IF m1 # NoMatch THEN stripTrailingComma(trim(m1))
        ELSE IF m2 # NoMatch THEN stripTrailingComma(trim(m2))
        ELSE <<>>

getBibField(entry, name) ==
    LET m1 == matchDelimited(entry, name, "{", "}", 0)
        m2 == matchDelimited(entry, name, "\"", "\"", 0)
        m3 == matchBare(entry, name, 0)
    IN  IF m1 # NoMatch THEN stripTrailingComma(trim(m1))
        ELSE IF m2 # NoMatch THEN stripTrailingComma(trim(m2))
        ELSE IF m3 # NoMatch THEN trim(m3)
        ELSE <<>>

(***************************************************************************)
(* buildBibIndex.  A Map is the sequence of its [key, val] pairs in        *)
(* insertion order; Map.set keeps the position of a key it already holds.  *)
(***************************************************************************)
mapHas(m, k) == \E i \in DOMAIN m : m[i].key = k
mapGet(m, k) == m[CHOOSE i \in DOMAIN m : m[i].key = k].val
\* a Map whose set keeps the value a key already has
mapSet_keepFirst(m, k, v) ==
    IF mapHas(m, k) THEN m ELSE Append(m, [key |-> k, val |-> v])
\* a Map whose set moves a key it already holds to the end (delete, then set)
mapSet_moveLast(m, k, v) ==
    LET kept == {i \in DOMAIN m : m[i].key # k}
        nth(n) == CHOOSE i \in kept : Cardinality({j \in kept : j < i}) = n - 1
    IN  Append([n \in 1..Cardinality(kept) |-> m[nth(n)]], [key |-> k, val |-> v])
mapSet(m, k, v) ==
    IF mapHas(m, k)
    THEN [i \in DOMAIN m |-> IF m[i].key = k THEN [key |-> k, val |-> v] ELSE m[i]]
    ELSE Append(m, [key |-> k, val |-> v])

fDoi == <<"d","o","i">>
fDOI == <<"D","O","I">>
fYear == <<"y","e","a","r">>
fTitle == <<"t","i","t","l","e">>

\* the for loop over entries[i..], threading the two maps
RECURSIVE indexEntries(_, _, _, _)
indexEntries(entries, i, byDOI, byTitle) ==
    IF i > Len(entries) THEN [entries |-> entries, byDOI |-> byDOI, byTitle |-> byTitle]
    ELSE LET e   == entries[i]
             d1  == getBibField(e, fDoi)
             doi == normDOI(IF d1 # <<>> THEN d1 ELSE getBibField(e, fDOI))
             t   == normalizeTitle(getBibField(e, fTitle))
         IN  indexEntries(entries, i + 1,
                          IF doi # <<>> THEN mapSet(byDOI, doi, e) ELSE byDOI,
                          IF t # <<>> THEN mapSet(byTitle, t, e) ELSE byTitle)

\* the value buildBibIndex assigns to BIB_INDEX
buildBibIndex(bib) == indexEntries(splitBibEntries(bib), 1, <<>>, <<>>)

(***************************************************************************)
(* findBibEntryFor(pub) against the index idx (the global BIB_INDEX).      *)
(***************************************************************************)
\* BIB_INDEX is null (<<>>) or holds one index object (<<index>>)
NULL == <<>>

\* the loop with score >= bestScore: the last of several equal scores wins
RECURSIVE fuzzyScan_lastWins(_, _, _, _, _)
fuzzyScan_lastWins(m, i, t, best, bestScore) ==
    IF i > Len(m) \/ t = <<>> THEN best
    ELSE LET key   == m[i].key
             hit   == includes(key, t) \/ includes(t, key)
             score == Min(Len(key), Len(t))
         IN  IF hit /\ score >= bestScore
             THEN fuzzyScan_lastWins(m, i + 1, t, m[i].val, score)
             ELSE fuzzyScan_lastWins(m, i + 1, t, best, bestScore)

\* step 3, the for-of loop over byTitle.entries() from position i
RECURSIVE fuzzyScan(_, _, _, _, _)
fuzzyScan(m, i, t, best, bestScore) ==
    IF i > Len(m) \/ t = <<>> THEN best
    ELSE LET key   == m[i].key
             hit   == includes(key, t) \/ includes(t, key)
             score == Min(Len(key), Len(t))
         IN  IF hit /\ score > bestScore
             THEN fuzzyScan(m, i + 1, t, m[i].val, score)
             ELSE fuzzyScan(m, i + 1, t, best, bestScore)

\* a resolver that tries the title before the DOI
findBibEntryFor_titleFirst(pub, idx) ==
    IF idx = NULL THEN <<>>
    ELSE IF pub.title = NonString THEN Thrown
    ELSE LET doi == normDOI(OrEmpty(pub.doi))
             t == normalizeTitle(OrEmpty(pub.title))
             byDOI == idx[1].byDOI
             byTitle == idx[1].byTitle
         IN  IF t # <<>> /\ mapHas(byTitle, t) THEN mapGet(byTitle, t)
             ELSE IF doi # <<>> /\ mapHas(byDOI, doi) THEN mapGet(byDOI, doi)
             ELSE fuzzyScan(byTitle, 1, t, <<>>, 0)

findBibEntryFor(pub, idx) ==
    IF idx = NULL THEN <<>>
    ELSE LET doi == normDOI(OrEmpty(pub.doi))
             byDOI == idx[1].byDOI
             byTitle == idx[1].byTitle
         IN  IF doi # <<>> /\ mapHas(byDOI, doi) THEN mapGet(byDOI, doi)
             \* normalizeTitle calls s.replace: a TypeError unless s is a string
             ELSE IF pub.title = NonString THEN Thrown
             ELSE LET t == normalizeTitle(OrEmpty(pub.title))
                  IN  IF t # <<>> /\ mapHas(byTitle, t) THEN mapGet(byTitle, t)
                      ELSE fuzzyScan(byTitle, 1, t, <<>>, 0)

(***************************************************************************)
(* bibtexFromPub.                                                          *)
(***************************************************************************)
SlugMax == 60

RECURSIVE stripLeadingHyphens(_)
stripLeadingHyphens(s) ==
    IF s # <<>> /\ Head(s) = "-" THEN stripLeadingHyphens(Tail(s)) ELSE s
RECURSIVE stripTrailingHyphens(_)
stripTrailingHyphens(s) ==
    IF s # <<>> /\ s[Len(s)] = "-"
    THEN stripTrailingHyphens(SubSeq(s, 1, Len(s) - 1)) ELSE s

\* (pub.title||'').toLowerCase().replace(/[^a-z0-9]+/g,'-').replace(/^-+|-+$/g,'')
titleSlug(title) ==
    stripTrailingHyphens(stripLeadingHyphens(
        replaceRunsOutside(toLowerCase(OrEmpty(title)), LowerAlnum, <<"-">>, FALSE)))

bibKey(pub) ==
    LET k == slice((IF Truthy(pub.year) THEN Str(pub.year) \o <<"-">> ELSE <<>>)
                   \o titleSlug(pub.title), 0, SlugMax)
    IN  IF k # <<>> THEN k ELSE <<"c","i","t","a","t","i","o","n">>

bibtexFromPub(pub) ==
    IF pub.title = NonString THEN Thrown
    ELSE LET doi == normDOI(OrEmpty(pub.doi))
             lines ==
               << <<"@","a","r","t","i","c","l","e","{">> \o bibKey(pub) \o <<",">>,
                  <<" "," ","t","i","t","l","e"," ","="," ","{">> \o Str(pub.title) \o <<"}",",">> >>
               \o (IF Truthy(pub.authors)
                   THEN << <<" "," ","a","u","t","h","o","r"," ","="," ","{">>
                           \o Str(pub.authors) \o <<"}",",">> >>
                   ELSE <<>>)
               \o (IF Truthy(pub.year)
                   THEN << <<" "," ","y","e","a","r"," ","="," ","{">>
                           \o Str(pub.year) \o <<"}",",">> >>
                   ELSE <<>>)
               \o (IF doi # <<>>
                   THEN << <<" "," ","d","o","i"," ","="," ","{">> \o doi \o <<"}",",">> >>
                   ELSE <<>>)
               \o << <<"}">> >>
         IN  join(lines, <<"\n">>)

(***************************************************************************)
(* The page session.                                                       *)
(*                                                                         *)
(* Bounds and inputs: the number of cite clicks in a session, the texts a  *)
(* bibliography resource or a selected file can hold, and the publication  *)
(* records of content.json (window.PUBS).                                  *)
(***************************************************************************)
MaxReq == 2
Reqs == 1..MaxReq

\* a bibliography of two entries, and an empty file
TextA ==
    <<"@","a","{","k","1",",","t","i","t","l","e","=","{","A","b"," ","C","d","}",",",
      "d","o","i","=","{","1","0",".","1","/","x","}","}","\n",
      "@","a","{","k","2",",","t","i","t","l","e","=","{","E","f","}",",",
      "d","o","i","=","{","1","0",".","1","/","y","}","}">>
BibTexts == {TextA, <<>>}

\* the bibliographies the resolver is probed with
ResolveTexts ==
    { <<"@","a","{","k","1",",","t","i","t","l","e","=","{","a","b","}",",",
        "d","o","i","=","{","d","1","}","}","\n",
        "@","a","{","k","2",",","t","i","t","l","e","=","{","c","d","}",",",
        "d","o","i","=","{","d","2","}","}","\n",
        "@","a","{","k","3",",","t","i","t","l","e","=","{","a","b"," ","c","d","}","}">>,
      <<"@","a","{","k","1",",","t","i","t","l","e","=","{","a","b","}","}",
        "@","a","{","k","2",",","t","i","t","l","e","=","{","c","d","}",",",
        "d","o","i","=","{","D","1",".","}","}",
        "@","a","{","k","4",",","t","i","t","l","e","=","{","A","B","!","}",",",
        "d","o","i","=","{","d","1","}","}",
        "@","a","{","k","5","}">>,
      <<>> }

PUBS ==
    << [id |-> <<"p","1">>, title |-> <<"A","b"," ","C","d">>, authors |-> <<"A"," ","B">>,
        year |-> <<"2","0","2","4">>,
        doi |-> <<"h","t","t","p","s",":","/","/","d","o","i",".","o","r","g","/","1","0",".","1","/","X">>],
       [id |-> <<"p","2">>, title |-> NonString, authors |-> Undefined,
        year |-> <<"2","0","2","0">>, doi |-> <<"d","o","i",":","1","0",".","1","/","Y",".">>] >>

NoText == <<"#notext">>
\* input.files[0]: none, a file whose text() resolves, one whose text() rejects
NoFile == "none"
Readable == "readable"
Unreadable == "unreadable"

VARIABLES
    BIB_TEXT,    \* let BIB_TEXT
    BIB_INDEX,   \* let BIB_INDEX: NULL or <<{entries, byDOI, byTitle}>>
    protocol,    \* location.protocol
    req,         \* one record per handleCiteClick call: where it is suspended
    issued,      \* how often each resource was requested and the prompt built
    alerts,      \* number of alert() dialogs handleCiteClick has raised
    overlay,     \* the #cite-overlay element: <<>> or <<its content>>
    probe,       \* a function exercised on its own (its arguments and results),
                 \* or the state of the site search
    pick         \* the content.json and collab-pins.json file prompts

coreVars == <<BIB_TEXT, BIB_INDEX, protocol, req, issued, alerts, overlay>>

(* req[r]:                                                                 *)
(*   pc         idle | fetchNorm | textNorm | fetchPlain | textPlain |     *)
(*              prompt | reading | gotText | resume | done | alerted       *)
(*   pub        index into PUBS (0 before the click)                       *)
(*   trace      what this call's load has done, in order                   *)
(*   txt        the text an await is about to hand to BIB_TEXT             *)
(*   listening  the prompt's change listener is still attached             *)
(*   chooser    the browser's file chooser of the prompt is open           *)
(*   file       the file the change listener is reading (its local f)      *)
(*   raised     an exception left the loader without being recovered       *)
NoneIssued == [norm |-> 0, plain |-> 0, prompt |-> 0]

IdleReq ==
    [pc |-> "idle", pub |-> 0, trace |-> <<>>, txt |-> NoText,
     listening |-> FALSE, chooser |-> FALSE, file |-> NoFile, raised |-> FALSE]

\* A call that has returned keeps nothing but how it ended.
Finished(q, how) == [IdleReq EXCEPT !.pc = how, !.raised = q.raised]

CoreInit ==
    /\ BIB_TEXT = <<>>
    /\ BIB_INDEX = NULL
    /\ protocol \in {"file:", "https:"}
    /\ req = [r \in Reqs |-> IdleReq]
    /\ issued = NoneIssued
    /\ alerts = 0
    /\ overlay = <<>>

\* A continuation queued by a settled promise runs before any other event.
MicrotaskPending == \E r \in Reqs : req[r].pc \in {"gotText", "resume"}
Macrotask == ~MicrotaskPending
\* An open file chooser is modal: the page takes no click until it closes.
UserEvent == Macrotask /\ \A r \in Reqs : ~req[r].chooser

\* if (BIB_TEXT && BIB_INDEX) return BIB_TEXT;
MemoHit == BIB_TEXT # <<>> /\ BIB_INDEX # NULL

\* pickBibLocal(): the prompt is built and its listeners attached
pickBibLocal(q) ==
    [q EXCEPT !.pc = "prompt", !.trace = Append(@, "prompt"),
              !.listening = TRUE, !.chooser = FALSE]

\* tryFetch(name) up to its await fetch(url)
tryFetchNormalized(q) == [q EXCEPT !.pc = "fetchNorm", !.trace = Append(@, "norm")]
tryFetchPlain(q) == [q EXCEPT !.pc = "fetchPlain", !.trace = Append(@, "plain")]

\* ensureBibLoaded() from its entry to its first await (or its early return)
ensureBibLoaded(q) ==
    IF MemoHit THEN [q EXCEPT !.pc = "resume"]
    ELSE IF protocol = "file:" THEN pickBibLocal(q)
    ELSE tryFetchNormalized(q)

\* a loader that gives up on the network after the first failure
onTryFetchError_noFallback(q) ==
    pickBibLocal([q EXCEPT !.trace = Append(@, IF q.pc \in {"fetchNorm", "textNorm"}
                                                THEN "normFail" ELSE "plainFail")])
\* the catch clause that follows a failed tryFetch
onTryFetchError(q) ==
    IF q.pc \in {"fetchNorm", "textNorm"}
    THEN tryFetchPlain([q EXCEPT !.trace = Append(@, "normFail")])
    ELSE pickBibLocal([q EXCEPT !.trace = Append(@, "plainFail")])

\* the requests and prompts a step has added, read off the call's trace
issuedAfter(q, q1) ==
    LET new == SubSeq(q1.trace, Len(q.trace) + 1, Len(q1.trace))
        n(ev) == Cardinality({i \in DOMAIN new : new[i] = ev})
    IN  [norm |-> issued.norm + n("norm"), plain |-> issued.plain + n("plain"),
         prompt |-> issued.prompt + n("prompt")]

\* A click on a cite button: handleCiteClick(pub) runs up to its await.
\* (Calls are numbered in the order of their clicks.)
CiteClick(r, p) ==
    /\ UserEvent
    /\ req[r].pc = "idle"
    /\ IF r = 1 THEN TRUE ELSE req[r - 1].pc # "idle"
    /\ req' = [req EXCEPT ![r] = ensureBibLoaded([@ EXCEPT !.pub = p])]
    /\ issued' = issuedAfter(req[r], req'[r])
    /\ UNCHANGED <<BIB_TEXT, BIB_INDEX, protocol, alerts, overlay, probe, pick>>

\* fetch(url) resolves with r.ok: tryFetch goes on to await r.text()
FetchOk(r) ==
    /\ Macrotask
    /\ req[r].pc \in {"fetchNorm", "fetchPlain"}
    /\ req' = [req EXCEPT ![r].pc = IF @ = "fetchNorm" THEN "textNorm" ELSE "textPlain"]
    /\ UNCHANGED <<BIB_TEXT, BIB_INDEX, protocol, issued, alerts, overlay, probe, pick>>

\* fetch(url) rejects (network error)
FetchRejects(r) ==
    /\ Macrotask
    /\ req[r].pc \in {"fetchNorm", "fetchPlain"}
    /\ req' = [req EXCEPT ![r] = onTryFetchError(@)]
    /\ issued' = issuedAfter(req[r], req'[r])
    /\ UNCHANGED <<BIB_TEXT, BIB_INDEX, protocol, alerts, overlay, probe, pick>>

\* fetch(url) resolves with !r.ok: throw new Error('HTTP ' + r.status)
FetchNotOk(r) ==
    /\ Macrotask
    /\ req[r].pc \in {"fetchNorm", "fetchPlain"}
    /\ req' = [req EXCEPT ![r] = onTryFetchError(@)]
    /\ issued' = issuedAfter(req[r], req'[r])
    /\ UNCHANGED <<BIB_TEXT, BIB_INDEX, protocol, alerts, overlay, probe, pick>>

\* r.text() rejects (the body could not be read)
BodyRejects(r) ==
    /\ Macrotask
    /\ req[r].pc \in {"textNorm", "textPlain"}
    /\ req' = [req EXCEPT ![r] = onTryFetchError(@)]
    /\ issued' = issuedAfter(req[r], req'[r])
    /\ UNCHANGED <<BIB_TEXT, BIB_INDEX, protocol, alerts, overlay, probe, pick>>

\* r.text() resolves with the resource's text
BodyResolves(r, t) ==
    /\ Macrotask
    /\ req[r].pc \in {"textNorm", "textPlain"}
    /\ req' = [req EXCEPT ![r].pc = "gotText", ![r].txt = t]
    /\ UNCHANGED <<BIB_TEXT, BIB_INDEX, protocol, issued, alerts, overlay, probe, pick>>

\* buildBibIndex, evaluated once for each text of the model
IndexTable == [t \in BibTexts \cup ResolveTexts |-> buildBibIndex(t)]

\* the index a load that stalely kept the first index would leave
indexAfterLoad_keepFirst(t) == IF BIB_INDEX = NULL THEN <<IndexTable[t]>> ELSE BIB_INDEX
\* the value of BIB_INDEX after buildBibIndex(BIB_TEXT), BIB_TEXT being t
indexAfterLoad(t) == <<IndexTable[t]>>

\* BIB_TEXT = await ...; buildBibIndex(BIB_TEXT); return BIB_TEXT;
AssignAndIndex(r) ==
    /\ req[r].pc = "gotText"
    /\ BIB_TEXT' = req[r].txt
    /\ BIB_INDEX' = indexAfterLoad(req[r].txt)
    /\ req' = [req EXCEPT ![r].pc = "resume", ![r].txt = NoText]
    /\ UNCHANGED <<protocol, issued, alerts, overlay, probe, pick>>

\* btn 'click' listener: input.click() opens the file chooser
PromptButton(r) ==
    /\ UserEvent
    /\ req[r].pc = "prompt"
    /\ req' = [req EXCEPT ![r].chooser = TRUE]
    /\ UNCHANGED <<BIB_TEXT, BIB_INDEX, protocol, issued, alerts, overlay, probe, pick>>

\* the chooser is dismissed and no change event is fired
PromptCancel(r) ==
    /\ Macrotask
    /\ req[r].pc = "prompt" /\ req[r].chooser
    /\ req' = [req EXCEPT ![r].chooser = FALSE]
    /\ UNCHANGED <<BIB_TEXT, BIB_INDEX, protocol, issued, alerts, overlay, probe, pick>>

\* the input's 'change' listener ({once:true}) on an event with files f
onBibChange(q, f) ==
    IF ~q.listening THEN [q EXCEPT !.chooser = FALSE]
    ELSE IF f = NoFile THEN [q EXCEPT !.chooser = FALSE, !.listening = FALSE]
    ELSE [q EXCEPT !.chooser = FALSE, !.listening = FALSE, !.pc = "reading", !.file = f]

\* a change event whose file list is empty
ChangeNoFile(r) ==
    /\ Macrotask
    /\ req[r].pc = "prompt" /\ req[r].chooser
    /\ req' = [req EXCEPT ![r] = onBibChange(@, NoFile)]
    /\ UNCHANGED <<BIB_TEXT, BIB_INDEX, protocol, issued, alerts, overlay, probe, pick>>

\* the user selects a file: a change event with input.files[0] = f
ChangeWithFile(r, f) ==
    /\ Macrotask
    /\ req[r].pc = "prompt" /\ req[r].chooser
    /\ req' = [req EXCEPT ![r] = onBibChange(@, f)]
    /\ UNCHANGED <<BIB_TEXT, BIB_INDEX, protocol, issued, alerts, overlay, probe, pick>>

\* await f.text() resolves with the file's text: host.remove(); resolve(txt)
FileTextResolves(r, t) ==
    /\ Macrotask
    /\ req[r].pc = "reading" /\ req[r].file = Readable
    /\ req' = [req EXCEPT ![r].pc = "gotText", ![r].txt = t, ![r].file = NoFile]
    /\ UNCHANGED <<BIB_TEXT, BIB_INDEX, protocol, issued, alerts, overlay, probe, pick>>

\* await f.text() rejects inside the listener: nothing catches it, the
\* promise of pickBibLocal stays pending and the prompt stays in the page
FileTextRejects(r) ==
    /\ Macrotask
    /\ req[r].pc = "reading" /\ req[r].file = Unreadable
    /\ req' = [req EXCEPT ![r].pc = "prompt", ![r].file = NoFile, ![r].raised = TRUE]
    /\ UNCHANGED <<BIB_TEXT, BIB_INDEX, protocol, issued, alerts, overlay, probe, pick>>

\* a presenter without the synthesis fallback
citationEntry_noFallback(pub, idx) == findBibEntryFor(pub, idx)
\* let entry = findBibEntryFor(pub); if(!entry) entry = bibtexFromPub(pub);
citationEntry(pub, idx) ==
    LET entry == findBibEntryFor(pub, idx)
    IN  IF entry = <<>> THEN bibtexFromPub(pub) ELSE entry

\* showCiteModal(pub, apa, bib): the overlay, created if absent, is filled.
\* The overlay keeps the title, the BibTeX text and the record's id; the APA
\* line, a pure function of the BibTeX text, is not kept in the state.
showCiteModal(pub, bib) ==
    << [title |-> IF Truthy(pub.title) THEN Str(pub.title)
                  ELSE <<"C","i","t","a","t","i","o","n">>,
        bib |-> bib, pid |-> pub.id] >>

\* handleCiteClick after await ensureBibLoaded(): resolve, format, show;
\* catch(err){ alert(...) }
Resume(r) ==
    /\ req[r].pc = "resume"
    /\ LET pub == PUBS[req[r].pub]
           entry == citationEntry(pub, BIB_INDEX)
       IN  IF entry = Thrown
           THEN /\ req' = [req EXCEPT ![r] = Finished([@ EXCEPT !.raised = TRUE], "alerted")]
                /\ alerts' = alerts + 1
                /\ UNCHANGED overlay
           ELSE /\ req' = [req EXCEPT ![r] = Finished(@, "done")]
                /\ overlay' = showCiteModal(pub, entry)
                /\ UNCHANGED alerts
    /\ UNCHANGED <<BIB_TEXT, BIB_INDEX, protocol, issued, probe, pick>>

\* click on #cite-backdrop or #cite-close: overlay.remove()
CloseModal ==
    /\ UserEvent
    /\ overlay # <<>>
    /\ overlay' = <<>>
    /\ UNCHANGED <<BIB_TEXT, BIB_INDEX, protocol, req, issued, alerts, probe, pick>>

Next ==
    \/ \E r \in Reqs, p \in DOMAIN PUBS : CiteClick(r, p)
    \/ \E r \in Reqs : FetchOk(r)
    \/ \E r \in Reqs : FetchRejects(r)
    \/ \E r \in Reqs : FetchNotOk(r)
    \/ \E r \in Reqs : BodyRejects(r)
    \/ \E r \in Reqs, t \in BibTexts : BodyResolves(r, t)
    \/ \E r \in Reqs : AssignAndIndex(r)
    \/ \E r \in Reqs : PromptButton(r)
    \/ \E r \in Reqs : PromptCancel(r)
    \/ \E r \in Reqs : ChangeNoFile(r)
    \/ \E r \in Reqs, f \in {Readable, Unreadable} : ChangeWithFile(r, f)
    \/ \E r \in Reqs, t \in BibTexts : FileTextResolves(r, t)
    \/ \E r \in Reqs : FileTextRejects(r)
    \/ \E r \in Reqs : Resume(r)
    \/ CloseModal

(***************************************************************************)
(* findBibEntryFor on its own: a bibliography text is indexed and the      *)
(* resolver is called once with a publication record.                      *)
(***************************************************************************)
ResolveTitles ==
    { Undefined, <<>>, <<"a","b">>, <<"c","d">>, <<"b">>, <<"x">>, <<"a","b"," ","c">>,
      <<"A","b","-","C","d">>, <<"a","b"," ","c","d"," ","e","f">> }
ResolveDois ==
    { Undefined, <<"d","1">>, <<"d","o","i",":","D","2">>, <<"d","9">> }
ResolvePubs == [title : ResolveTitles, doi : ResolveDois]

\* the two JSON prompts before the page has started loading
NoPrompt ==
    [pc |-> "off", listening |-> FALSE, chooser |-> "none", reading |-> NoFile,
     via |-> "none", rendered |-> FALSE, bad |-> 0]
NoPick == [api |-> FALSE, content |-> NoPrompt, pins |-> NoPrompt, alerts |-> 0, picks |-> 0]

NotCalled == <<"#notcalled">>
NoProbe == [pub |-> [title |-> Undefined, doi |-> Undefined], out |-> NotCalled]

ResolveInit ==
    /\ BIB_TEXT \in ResolveTexts
    /\ BIB_INDEX = NULL
    /\ protocol = "https:"
    /\ req = [r \in Reqs |-> IdleReq]
    /\ issued = NoneIssued
    /\ alerts = 0
    /\ overlay = <<>>
    /\ probe \in [pub : ResolvePubs, out : {NotCalled}]
    /\ pick = NoPick

\* buildBibIndex(BIB_TEXT)
ProbeIndex ==
    /\ BIB_INDEX = NULL
    /\ BIB_INDEX' = indexAfterLoad(BIB_TEXT)
    /\ UNCHANGED <<BIB_TEXT, protocol, req, issued, alerts, overlay, probe, pick>>

\* findBibEntryFor(pub)
ProbeFind ==
    /\ BIB_INDEX # NULL
    /\ probe.out = NotCalled
    /\ probe' = [probe EXCEPT !.out = findBibEntryFor(probe.pub, BIB_INDEX)]
    /\ UNCHANGED <<coreVars, pick>>

ResolveNext == ProbeIndex \/ ProbeFind

(***************************************************************************)
(* The two JSON file prompts of a page opened from the file system:        *)
(* showLocalPicker (content.json) and showPinsLocalPicker                  *)
(* (collab-pins.json).                                                     *)
(*                                                                         *)
(* pick.content / pick.pins:                                               *)
(*   pc         off | fetch | prompt | loaded                              *)
(*   listening  the input's change listener is attached                    *)
(*   chooser    none | input (input.click()) | api (showOpenFilePicker)    *)
(*   reading    the selected file while its text is awaited                *)
(*   via        which handler awaits it: input | api                       *)
(*   rendered   proceedWith / renderPins has run                           *)
(*   bad        files with invalid content this prompt has read            *)
(* pick.api     window.showOpenFilePicker exists                           *)
(* pick.alerts  alert() dialogs raised by the prompts                      *)
(* pick.picks   files selected so far (bounded by MaxPicks)                *)
(***************************************************************************)
MaxPicks == 2
Invalid == "invalid"
FileKinds == {Readable, Invalid, Unreadable}

PickInit ==
    /\ BIB_TEXT = <<>>
    /\ BIB_INDEX = NULL
    /\ protocol = "file:"
    /\ req = [r \in Reqs |-> IdleReq]
    /\ issued = NoneIssued
    /\ alerts = 0
    /\ overlay = <<>>
    /\ probe = NoProbe
    /\ \E a \in BOOLEAN :
         pick = [NoPick EXCEPT !.api = a, !.content.pc = "fetch", !.pins.pc = "fetch"]

NoChooserOpen == pick.content.chooser = "none" /\ pick.pins.chooser = "none"

\* fetch('content.json').then(r=>r.json()).then(proceedWith)
ContentFetchOk ==
    /\ pick.content.pc = "fetch"
    /\ pick' = [pick EXCEPT !.content.pc = "loaded", !.content.rendered = TRUE]
    /\ UNCHANGED <<coreVars, probe>>

\* ... .catch(showLocalPicker): the prompt is prepended, both listeners attached
ContentFetchFails ==
    /\ pick.content.pc = "fetch"
    /\ pick' = [pick EXCEPT !.content.pc = "prompt", !.content.listening = TRUE]
    /\ UNCHANGED <<coreVars, probe>>

\* btn 'click': showOpenFilePicker when the browser has it, else input.click()
ContentButton ==
    /\ NoChooserOpen
    /\ pick.content.pc = "prompt" /\ pick.content.reading = NoFile
    /\ pick' = [pick EXCEPT !.content.chooser = IF pick.api THEN "api" ELSE "input"]
    /\ UNCHANGED <<coreVars, probe>>

\* the chooser is dismissed (showOpenFilePicker rejects: catch(err){})
ContentCancel ==
    /\ pick.content.chooser # "none"
    /\ pick' = [pick EXCEPT !.content.chooser = "none"]
    /\ UNCHANGED <<coreVars, probe>>

\* a file is chosen: the change listener runs f.text(), or the click
\* handler goes on to handle.getFile() and file.text()
ContentSelect(f) ==
    /\ pick.content.chooser # "none"
    /\ pick.picks < MaxPicks
    /\ pick' = [pick EXCEPT !.content.chooser = "none", !.content.reading = f,
                            !.content.via = pick.content.chooser,
                            !.picks = @ + 1]
    /\ UNCHANGED <<coreVars, probe>>

\* a change event whose file list is empty: if(!f) return
ContentChangeNoFile ==
    /\ pick.content.chooser = "input"
    /\ pick' = [pick EXCEPT !.content.chooser = "none"]
    /\ UNCHANGED <<coreVars, probe>>

\* what the content prompt is after the awaited text has settled
\* input: try{ JSON.parse; host.remove(); proceedWith }catch(e){ alert }
\* api:   try{ ...; JSON.parse; host.remove(); proceedWith }catch(err){}
contentAfterRead(c) ==
    LET c1 == [c EXCEPT !.reading = NoFile, !.via = "none"]
    IN  IF c.reading = Readable
        THEN [c1 EXCEPT !.pc = "loaded", !.rendered = TRUE, !.listening = FALSE]
        ELSE IF c.reading = Invalid THEN [c1 EXCEPT !.bad = @ + 1]
        ELSE c1
\* whether that handler calls alert()
contentAlerts(c) == c.reading = Invalid /\ c.via = "input"

ContentRead ==
    /\ pick.content.reading # NoFile
    /\ pick' = [pick EXCEPT !.content = contentAfterRead(@),
                            !.alerts = IF contentAlerts(pick.content) THEN @ + 1 ELSE @]
    /\ UNCHANGED <<coreVars, probe>>

\* init(): fetch('collab-pins.json') gives pins: renderPins(pins)
PinsFetchOk ==
    /\ pick.pins.pc = "fetch"
    /\ pick' = [pick EXCEPT !.pins.pc = "loaded", !.pins.rendered = TRUE]
    /\ UNCHANGED <<coreVars, probe>>

\* init(): the fetch fails or gives no pin: showPinsLocalPicker()
PinsFetchFails ==
    /\ pick.pins.pc = "fetch"
    /\ pick' = [pick EXCEPT !.pins.pc = "prompt", !.pins.listening = TRUE]
    /\ UNCHANGED <<coreVars, probe>>

\* btn 'click': input.click()
PinsButton ==
    /\ NoChooserOpen
    /\ pick.pins.pc = "prompt" /\ pick.pins.reading = NoFile
    /\ pick' = [pick EXCEPT !.pins.chooser = "input"]
    /\ UNCHANGED <<coreVars, probe>>

PinsCancel ==
    /\ pick.pins.chooser # "none"
    /\ pick' = [pick EXCEPT !.pins.chooser = "none"]
    /\ UNCHANGED <<coreVars, probe>>

\* the input's 'change' listener ({once:true}) on an event with files f
onPinsChange(q, f) ==
    IF ~q.listening THEN [q EXCEPT !.chooser = "none"]
    ELSE IF f = NoFile THEN [q EXCEPT !.chooser = "none", !.listening = FALSE]
    ELSE [q EXCEPT !.chooser = "none", !.listening = FALSE, !.reading = f, !.via = "input"]

PinsSelect(f) ==
    /\ pick.pins.chooser # "none"
    /\ pick.picks < MaxPicks
    /\ pick' = [pick EXCEPT !.pins = onPinsChange(@, f), !.picks = @ + 1]
    /\ UNCHANGED <<coreVars, probe>>

PinsChangeNoFile ==
    /\ pick.pins.chooser # "none"
    /\ pick' = [pick EXCEPT !.pins = onPinsChange(@, NoFile)]
    /\ UNCHANGED <<coreVars, probe>>

\* try{ JSON.parse(await f.text()); normalizePins; if(!pins.length) throw;
\*      host.remove(); renderPins(pins) }catch(err){ alert(...) }
pinsAfterRead(q) ==
    LET q1 == [q EXCEPT !.reading = NoFile, !.via = "none"]
    IN  IF q.reading = Readable THEN [q1 EXCEPT !.pc = "loaded", !.rendered = TRUE]
        ELSE IF q.reading = Invalid THEN [q1 EXCEPT !.bad = @ + 1]
        ELSE q1
pinsAlerts(q) == q.reading \in {Invalid, Unreadable}

PinsRead ==
    /\ pick.pins.reading # NoFile
    /\ pick' = [pick EXCEPT !.pins = pinsAfterRead(@),
                            !.alerts = IF pinsAlerts(pick.pins) THEN @ + 1 ELSE @]
    /\ UNCHANGED <<coreVars, probe>>

PickNext ==
    \/ ContentFetchOk
    \/ ContentFetchFails
    \/ ContentButton
    \/ ContentCancel
    \/ \E f \in FileKinds : ContentSelect(f)
    \/ ContentChangeNoFile
    \/ ContentRead
    \/ PinsFetchOk
    \/ PinsFetchFails
    \/ PinsButton
    \/ PinsCancel
    \/ \E f \in FileKinds : PinsSelect(f)
    \/ PinsChangeNoFile
    \/ PinsRead

(***************************************************************************)
(* Specifications.                                                         *)
(***************************************************************************)
vars == <<BIB_TEXT, BIB_INDEX, protocol, req, issued, alerts, overlay, probe, pick>>

Init == CoreInit /\ probe = NoProbe /\ pick = NoPick
Spec == Init /\ [][Next]_vars

SpecPickers == PickInit /\ [][PickNext]_vars

SpecResolve == ResolveInit /\ [][ResolveNext]_vars

(***************************************************************************)
(* Properties.                                                             *)
(***************************************************************************)
Range(f) == {f[i] : i \in DOMAIN f}
InFlight == {"fetchNorm", "textNorm", "fetchPlain", "textPlain", "prompt", "reading"}
IsPrefix(a, b) == Len(a) <= Len(b) /\ SubSeq(b, 1, Len(a)) = a
FullFallback == <<"norm", "normFail", "plain", "plainFail", "prompt">>

\* C1: in a page session at most one request for citations.normalized.bib,
\* at most one for citations.bib and at most one file prompt are ever made.
C1_AtMostOneLoadSequence ==
    issued.norm <= 1 /\ issued.plain <= 1 /\ issued.prompt <= 1

\* C2: once a load has completed (buildBibIndex has run), a citation request
\* started afterwards returns from ensureBibLoaded at once: it issues no
\* fetch, builds no prompt and leaves BIB_TEXT and BIB_INDEX alone.
C2_NoLoadAfterFirstCompletes ==
    [][\A r \in Reqs :
          (BIB_INDEX # NULL /\ req[r].pc = "idle" /\ req'[r].pc # "idle")
          => (req'[r].pc = "resume" /\ issued' = issued)]_vars

\* C3: wherever a callback can run, BIB_INDEX is null or the index of the
\* current BIB_TEXT, and it is non-null when handleCiteClick is about to
\* call findBibEntryFor.
C3_IndexMatchesText ==
    /\ BIB_INDEX = NULL \/ BIB_INDEX = <<IndexTable[BIB_TEXT]>>
    /\ \A r \in Reqs : req[r].pc = "resume" => BIB_INDEX # NULL
\* a call resumes with the index of a non-empty text while an earlier
\* call's load is still in flight
C3_Witness ==
    \E r1, r2 \in Reqs :
        /\ r1 < r2
        /\ req[r1].pc \in InFlight
        /\ req[r2].pc = "resume"
        /\ BIB_TEXT = TextA

\* C4: a load asks for citations.normalized.bib first, for citations.bib only
\* after that failed, and prompts only after both failed or, under file:,
\* at once and without any fetch; an alert is raised only by a call that has
\* come back from its load, never by a failing fetch.
C4_FallbackOrder ==
    /\ [](\A r \in Reqs :
            IF protocol = "file:" THEN req[r].trace \in {<<>>, <<"prompt">>}
            ELSE IsPrefix(req[r].trace, FullFallback))
    /\ [][alerts' # alerts => \E r \in Reqs : req[r].pc = "resume"]_vars
\* a load whose two fetches failed shows the prompt
C4_Witness == \E r \in Reqs : req[r].trace = FullFallback /\ req[r].pc = "prompt"

\* C5: a request waiting at the file prompt has shown no modal, and every
\* selection of a file in that prompt is taken up (the file is read), after
\* whatever prompt events came before.
C5_SelectedFileIsRead ==
    [][\A r \in Reqs :
          /\ req[r].pc = "prompt" => req'[r].pc # "done"
          /\ (\E f \in {Readable, Unreadable} : ChangeWithFile(r, f))
             => req'[r].pc = "reading"]_vars

\* C6: in both JSON prompts every file with invalid content raises an alert
\* and renders nothing, and the prompt stays in the page with its change
\* listener working.
C6_InvalidFileAlertsAndPromptRecovers ==
    /\ pick.alerts >= pick.content.bad + pick.pins.bad
    /\ \A q \in {pick.content, pick.pins} :
         /\ q.rendered => q.pc = "loaded"
         /\ (q.bad > 0 /\ q.pc # "loaded") => q.pc = "prompt"
         /\ (q.bad > 0 /\ q.pc = "prompt" /\ q.reading = NoFile) => q.listening

\* C7: every exception raised while a citation is constructed and not
\* recovered by the loader's fallbacks has ended in an alert of that call.
C7_EveryExceptionAlerts ==
    /\ \A r \in Reqs : req[r].raised => req[r].pc = "alerted"
    /\ alerts = Cardinality({r \in Reqs : req[r].pc = "alerted"})

\* the record and the index of a probe
ProbeDoi == normDOI(OrEmpty(probe.pub.doi))
ProbeTitle == normalizeTitle(OrEmpty(probe.pub.title))
ProbeDoiHit == ProbeDoi # <<>> /\ mapHas(BIB_INDEX[1].byDOI, ProbeDoi)
ProbeTitleHit == ProbeTitle # <<>> /\ mapHas(BIB_INDEX[1].byTitle, ProbeTitle)

FuzzyCands ==
    {i \in DOMAIN BIB_INDEX[1].byTitle :
        \/ includes(BIB_INDEX[1].byTitle[i].key, ProbeTitle)
        \/ includes(ProbeTitle, BIB_INDEX[1].byTitle[i].key)}
FuzzyScore(i) == Min(Len(BIB_INDEX[1].byTitle[i].key), Len(ProbeTitle))

C11_SameRecordSameBibtex ==
    [][\A r \in Reqs :
          (/\ req[r].pc = "resume" /\ req'[r].pc = "done"
           /\ overlay # <<>>
           /\ overlay[1].pid = PUBS[req[r].pub].id)
          => overlay'[1].bib = overlay[1].bib]_vars

(***************************************************************************)
(* buildBibIndex on its own: bibliographies put together from entries      *)
(* with and without title and doi fields, some of them normalizing to the  *)
(* same key, some to the empty key.                                        *)
(***************************************************************************)
MaxEntries == 2
IndexTitleFields ==
    { <<>>, <<"t","i","t","l","e","=","{","a","b","}",",">>, <<"t","i","t","l","e","=","{","A","B","!","}",",">>, <<"t","i","t","l","e","=","{","}",",">> }
IndexDoiFields ==
    { <<>>, <<"d","o","i","=","{","d","1","}",",">>, <<"D","O","I","=","{","D","1",".","}",",">>, <<"d","o","i","=","{",".","}",",">> }
IndexEntryTexts ==
    { <<"@","a","{","k",",">> \o tf \o df \o <<"}">> : tf \in IndexTitleFields, df \in IndexDoiFields }
RECURSIVE TextsOf(_, _)
TextsOf(pieces, n) ==
    IF n = 0 THEN {<<>>}
    ELSE {e \o rest : e \in pieces, rest \in TextsOf(pieces, n - 1)}
IndexTexts == UNION {TextsOf(IndexEntryTexts, n) : n \in 0..MaxEntries}

\* the rest of the page is idle while a function is exercised on its own
PureFrame ==
    /\ protocol = "https:"
    /\ req = [r \in Reqs |-> IdleReq]
    /\ issued = NoneIssued
    /\ alerts = 0
    /\ overlay = <<>>
    /\ pick = NoPick

IndexInit ==
    /\ BIB_TEXT \in IndexTexts
    /\ BIB_INDEX = NULL
    /\ probe = NoProbe
    /\ PureFrame

\* buildBibIndex(BIB_TEXT)
BuildIndex ==
    /\ BIB_INDEX = NULL
    /\ BIB_INDEX' = <<buildBibIndex(BIB_TEXT)>>
    /\ UNCHANGED <<BIB_TEXT, protocol, req, issued, alerts, overlay, probe, pick>>

SpecIndex == IndexInit /\ [][BuildIndex]_vars

\* the keys buildBibIndex computes for an entry
entryDoiKey(e) ==
    LET d1 == getBibField(e, fDoi)
    IN  normDOI(IF d1 # <<>> THEN d1 ELSE getBibField(e, fDOI))
entryTitleKey(e) == normalizeTitle(getBibField(e, fTitle))
KeysOnce(m) == \A i, j \in DOMAIN m : m[i].key = m[j].key => i = j
LastWith(entries, key(_), k) ==
    entries[CHOOSE i \in DOMAIN entries :
               /\ key(entries[i]) = k
               /\ \A j \in DOMAIN entries : key(entries[j]) = k => j <= i]

\* C12 as stated: every entry with a non-empty doi (title) field is the
\* value stored in byDOI (byTitle) under its normalized key.
C12_EveryEntryStored ==
    BIB_INDEX # NULL =>
      \A i \in DOMAIN BIB_INDEX[1].entries :
        LET e == BIB_INDEX[1].entries[i]
        IN  /\ getBibField(e, fDoi) # <<>> =>
                 /\ mapHas(BIB_INDEX[1].byDOI, entryDoiKey(e))
                 /\ mapGet(BIB_INDEX[1].byDOI, entryDoiKey(e)) = e
            /\ getBibField(e, fTitle) # <<>> =>
                 /\ mapHas(BIB_INDEX[1].byTitle, entryTitleKey(e))
                 /\ mapGet(BIB_INDEX[1].byTitle, entryTitleKey(e)) = e

\* C12, amended: each map holds every key once; its keys are the non-empty
\* normalized keys of the entries; and the value under a key is the last
\* entry, in source order, that normalizes to it.
C12_LastEntryStored ==
    BIB_INDEX # NULL =>
      LET idx == BIB_INDEX[1]
      IN  /\ idx.entries = splitBibEntries(BIB_TEXT)
          /\ KeysOnce(idx.byDOI) /\ KeysOnce(idx.byTitle)
          /\ \A i \in DOMAIN idx.byDOI :
               /\ idx.byDOI[i].key # <<>>
               /\ \E j \in DOMAIN idx.entries : entryDoiKey(idx.entries[j]) = idx.byDOI[i].key
          /\ \A i \in DOMAIN idx.byTitle :
               /\ idx.byTitle[i].key # <<>>
               /\ \E j \in DOMAIN idx.entries : entryTitleKey(idx.entries[j]) = idx.byTitle[i].key
          /\ \A i \in DOMAIN idx.entries :
               LET e == idx.entries[i]
               IN  /\ entryDoiKey(e) # <<>> =>
                        /\ mapHas(idx.byDOI, entryDoiKey(e))
                        /\ mapGet(idx.byDOI, entryDoiKey(e))
                             = LastWith(idx.entries, entryDoiKey, entryDoiKey(e))
                   /\ entryTitleKey(e) # <<>> =>
                        /\ mapHas(idx.byTitle, entryTitleKey(e))
                        /\ mapGet(idx.byTitle, entryTitleKey(e))
                             = LastWith(idx.entries, entryTitleKey, entryTitleKey(e))
\* two different entries normalize to the same DOI; the later one is stored
C12_Witness ==
    /\ BIB_INDEX # NULL
    /\ \E i, j \in DOMAIN BIB_INDEX[1].entries :
         /\ i < j
         /\ BIB_INDEX[1].entries[i] # BIB_INDEX[1].entries[j]
         /\ entryDoiKey(BIB_INDEX[1].entries[i]) # <<>>
         /\ entryDoiKey(BIB_INDEX[1].entries[i]) = entryDoiKey(BIB_INDEX[1].entries[j])
         /\ mapGet(BIB_INDEX[1].byDOI, entryDoiKey(BIB_INDEX[1].entries[i]))
              = BIB_INDEX[1].entries[j]

(***************************************************************************)
(* splitBibEntries step by step: probe holds the function's text and its   *)
(* locals i and entries; spans keeps the (at, j) of each slice pushed.     *)
(***************************************************************************)
\* every text of '@' and braces up to MaxTextLen, and every text that also
\* has other characters up to MaxNamedLen
MaxTextLen == 7
MaxNamedLen == 5
BraceChars == {"@", "{", "}"}
SplitChars == BraceChars \cup {"x"}
SplitTexts ==
    UNION ({[1..n -> BraceChars] : n \in 0..MaxTextLen}
           \cup {[1..n -> SplitChars] : n \in 0..MaxNamedLen})

SplitInit ==
    /\ probe \in [text : SplitTexts, i : {0}, entries : {<<>>}, spans : {<<>>}, pc : {"loop"}]
    /\ BIB_TEXT = <<>>
    /\ BIB_INDEX = NULL
    /\ PureFrame

\* const at = text.indexOf('@', i);  const brace = text.indexOf('{', at);
splitAt(text, i) == indexOf(text, "@", i)
splitBrace(text, i) == IF splitAt(text, i) = -1 THEN -1 ELSE indexOf(text, "{", splitAt(text, i))
\* a loop without the second break
splitGoesOn_noBraceBreak(text, i) == i < Len(text) /\ splitAt(text, i) # -1
splitGoesOn(text, i) == i < Len(text) /\ splitAt(text, i) # -1 /\ splitBrace(text, i) # -1

\* one pass of the while (i < n) loop that pushes an entry
SplitIterate ==
    /\ probe.pc = "loop"
    /\ splitGoesOn(probe.text, probe.i)
    /\ LET at == splitAt(probe.text, probe.i)
           j  == closeBrace(probe.text, splitBrace(probe.text, probe.i) + 1, 1)
       IN  probe' = [probe EXCEPT !.entries = Append(@, slice(probe.text, at, j)),
                                  !.spans = Append(@, <<at, j>>),
                                  !.i = j]
    /\ UNCHANGED <<coreVars, pick>>

\* i >= n, or one of the two breaks: return entries
SplitReturn ==
    /\ probe.pc = "loop"
    /\ ~splitGoesOn(probe.text, probe.i)
    /\ probe' = [probe EXCEPT !.pc = "done"]
    /\ UNCHANGED <<coreVars, pick>>

SplitNext == SplitIterate \/ SplitReturn
SpecSplit == SplitInit /\ [][SplitNext]_vars

\* brace counting over the text, independent of the scan
CountIn(text, ch, a, b) == Cardinality({k \in a..b : At(text, k) = ch})
DepthAfter(text, k) == CountIn(text, "{", 0, k) - CountIn(text, "}", 0, k)
DepthBefore(text, k) == DepthAfter(text, k - 1)
Specials == {"@", "{", "}"}
PlainBetween(text, a, b) == \A m \in (a + 1)..(b - 1) : At(text, m) \notin Specials
\* braces balanced, and outside braces nothing but text and '@name{'
WellFormed(text) ==
    /\ \A k \in 0..(Len(text) - 1) : DepthAfter(text, k) >= 0
    /\ DepthAfter(text, Len(text) - 1) = 0
    /\ \A k \in 0..(Len(text) - 1) :
         /\ (At(text, k) = "{" /\ DepthBefore(text, k) = 0) =>
               \E a \in 0..(k - 1) : At(text, a) = "@" /\ PlainBetween(text, a, k)
         /\ (At(text, k) = "@" /\ DepthBefore(text, k) = 0) =>
               \E b \in (k + 1)..(Len(text) - 1) : At(text, b) = "{" /\ PlainBetween(text, k, b)
TopAts(text) == {k \in 0..(Len(text) - 1) : At(text, k) = "@" /\ DepthBefore(text, k) = 0}
ClosesAt(text, k, m) ==
    /\ m > k /\ At(text, m) = "}" /\ DepthAfter(text, m) = 0
    /\ \A m2 \in (k + 1)..(m - 1) : ~(At(text, m2) = "}" /\ DepthAfter(text, m2) = 0)

\* C13: on a well-formed text the splitter returns one entry for each
\* top-level '@', in source order; each is the slice from its '@' to the '}'
\* that brings the depth back to zero, slices do not overlap, and an '@'
\* inside braces starts no entry.
C13_SplitWellFormed ==
    (probe.pc = "done" /\ WellFormed(probe.text)) =>
      /\ Len(probe.entries) = Cardinality(TopAts(probe.text))
      /\ \A n \in DOMAIN probe.spans :
           /\ probe.spans[n][1] \in TopAts(probe.text)
           /\ ClosesAt(probe.text, probe.spans[n][1], probe.spans[n][2] - 1)
           /\ probe.entries[n] = slice(probe.text, probe.spans[n][1], probe.spans[n][2])
           /\ n < Len(probe.spans) => probe.spans[n][2] <= probe.spans[n + 1][1]
      /\ probe.entries = splitBibEntries(probe.text)
\* a well-formed text of two entries, one of them holding an '@' in its braces
C13_Witness ==
    /\ probe.pc = "done" /\ WellFormed(probe.text)
    /\ Len(probe.entries) = 2
    /\ \E k \in 0..(Len(probe.text) - 1) :
         At(probe.text, k) = "@" /\ DepthBefore(probe.text, k) > 0

\* the braces opened at position b never close
Unclosed(text, b) ==
    \A k \in (b + 1)..(Len(text) - 1) :
        1 + CountIn(text, "{", b + 1, k) - CountIn(text, "}", b + 1, k) > 0

\* C14: on every text the splitter returns: an iteration about to run ends
\* with a larger scan position, each iteration has moved the scan position forward (the
\* ends of the slices pushed so far increase strictly, and the position is
\* the last of them) and the position never passes the end of the text; the empty text gives no entry, an entry whose braces
\* never close runs to the end of the text, and nothing is returned from an
\* '@' that no '{' follows.
C14_SplitTerminates ==
    /\ probe.i <= Len(probe.text)
    /\ (probe.pc = "loop" /\ splitGoesOn(probe.text, probe.i)) =>
         LET j == closeBrace(probe.text, splitBrace(probe.text, probe.i) + 1, 1)
         IN  probe.i < j /\ j <= Len(probe.text)
    /\ probe.i = IF probe.spans = <<>> THEN 0 ELSE probe.spans[Len(probe.spans)][2]
    /\ \A n \in DOMAIN probe.spans :
         LET at == probe.spans[n][1]
             b  == indexOf(probe.text, "{", at)
             before == IF n = 1 THEN 0 ELSE probe.spans[n - 1][2]
         IN  /\ before <= at /\ at < probe.spans[n][2]
             /\ At(probe.text, at) = "@" /\ b # -1
             /\ Unclosed(probe.text, b) =>
                  /\ probe.spans[n][2] = Len(probe.text)
                  /\ probe.entries[n] = slice(probe.text, at, Len(probe.text))
    /\ probe.pc = "done" =>
         /\ probe.text = <<>> => probe.entries = <<>>
         /\ probe.entries = splitBibEntries(probe.text)
         /\ \A k \in 0..(Len(probe.text) - 1) :
              (At(probe.text, k) = "@" /\ indexOf(probe.text, "{", k) = -1)
              => \A n \in DOMAIN probe.spans : probe.spans[n][1] < k
\* a closed entry, then one whose braces never close, then the return
C14_Witness ==
    /\ probe.pc = "done"
    /\ Len(probe.spans) = 2
    /\ Unclosed(probe.text, indexOf(probe.text, "{", probe.spans[2][1]))
    /\ probe.entries[2] = slice(probe.text, probe.spans[2][1], Len(probe.text))

(***************************************************************************)
(* normDOI on its own: applied to a DOI text, then to its own result.      *)
(***************************************************************************)
MaxTrail == 2
DoiLeads ==
    { <<>>, <<"d","o","i",":">>, <<"D","O","I",":"," ">>, <<"h","t","t","p","s",":","/","/","d","o","i",".","o","r","g","/">>, <<"h","t","t","p",":","/","/","d","x",".","d","o","i",".","o","r","g","/">>, <<"d","o","i",":","h","t","t","p","s",":","/","/","d","o","i",".","o","r","g","/">>, <<" ">> }
DoiBodies == { <<>>, <<"1","0",".","1","/","x">>, <<"1","0",".","1","/","X">> }
DoiTrails == UNION {[1..n -> {".", ",", " "}] : n \in 0..MaxTrail}
DoiInputs == {l \o b \o tr : l \in DoiLeads, b \in DoiBodies, tr \in DoiTrails}

DoiInit ==
    /\ probe \in [s : DoiInputs, out : {NotCalled}, again : {NotCalled}]
    /\ BIB_TEXT = <<>>
    /\ BIB_INDEX = NULL
    /\ PureFrame

\* normDOI(s)
NormDoi ==
    /\ probe.out = NotCalled
    /\ probe' = [probe EXCEPT !.out = normDOI(probe.s)]
    /\ UNCHANGED <<coreVars, pick>>

\* normDOI(normDOI(s))
NormDoiAgain ==
    /\ probe.out # NotCalled
    /\ probe.again = NotCalled
    /\ probe' = [probe EXCEPT !.again = normDOI(probe.out)]
    /\ UNCHANGED <<coreVars, pick>>

DoiNext == NormDoi \/ NormDoiAgain
SpecDoi == DoiInit /\ [][DoiNext]_vars

\* C15: normDOI applied to its own result returns that result.
C15_NormDoiIdempotent ==
    probe.again # NotCalled => probe.again = probe.out

(***************************************************************************)
(* normalizeTitle on its own: a title is rewritten, one change at a time,  *)
(* in the ways that are to leave its key alone: the case of a letter,      *)
(* brace characters, the characters of a separator run, separators at the  *)
(* two ends.                                                               *)
(***************************************************************************)
MaxTitleLen == 5
TitleSeeds == { <<>>, <<"A","b"," ","c">>, <<"a","-","1">> }
TitleSeps == {" ", "-", "\n"}
TitleBraces == {"{", "}"}
UpperOf == [c \in LowerSet |-> UpperChars[CHOOSE i \in DOMAIN LowerChars : LowerChars[i] = c]]
otherCase(c) == IF c \in UpperSet THEN LowerOf[c] ELSE UpperOf[c]
insertAt(s, i, c) == SubSeq(s, 1, i) \o <<c>> \o SubSeq(s, i + 1, Len(s))
removeAt(s, i) == SubSeq(s, 1, i - 1) \o SubSeq(s, i + 1, Len(s))

TitleInit ==
    /\ probe \in [orig : TitleSeeds, cur : TitleSeeds, key : {NotCalled}]
    /\ probe.orig = probe.cur
    /\ BIB_TEXT = <<>>
    /\ BIB_INDEX = NULL
    /\ PureFrame

Rewrite(s) ==
    /\ probe.key = NotCalled
    /\ probe' = [probe EXCEPT !.cur = s]
    /\ UNCHANGED <<coreVars, pick>>

FlipCase(i) ==
    /\ i \in DOMAIN probe.cur
    /\ probe.cur[i] \in LowerSet \cup UpperSet
    /\ Rewrite([probe.cur EXCEPT ![i] = otherCase(@)])
InsertBrace(i, c) ==
    /\ Len(probe.cur) < MaxTitleLen
    /\ i \in 0..Len(probe.cur)
    /\ Rewrite(insertAt(probe.cur, i, c))
RemoveBrace(i) ==
    /\ i \in DOMAIN probe.cur
    /\ probe.cur[i] \in TitleBraces
    /\ Rewrite(removeAt(probe.cur, i))
SwapSeparator(i, c) ==
    /\ i \in DOMAIN probe.cur
    /\ probe.cur[i] \in TitleSeps
    /\ c # probe.cur[i]
    /\ Rewrite([probe.cur EXCEPT ![i] = c])
GrowRun(i, c) ==
    /\ Len(probe.cur) < MaxTitleLen
    /\ i \in DOMAIN probe.cur
    /\ probe.cur[i] \in TitleSeps
    /\ Rewrite(insertAt(probe.cur, i, c))
PadEnds(atEnd, c) ==
    /\ Len(probe.cur) < MaxTitleLen
    /\ Rewrite(IF atEnd THEN Append(probe.cur, c) ELSE <<c>> \o probe.cur)
\* normalizeTitle(cur)
NormTitle ==
    /\ probe.key = NotCalled
    /\ probe' = [probe EXCEPT !.key = normalizeTitle(probe.cur)]
    /\ UNCHANGED <<coreVars, pick>>

TitleNext ==
    \/ \E i \in 1..MaxTitleLen : FlipCase(i)
    \/ \E i \in 0..MaxTitleLen, c \in TitleBraces : InsertBrace(i, c)
    \/ \E i \in 1..MaxTitleLen : RemoveBrace(i)
    \/ \E i \in 1..MaxTitleLen, c \in TitleSeps : SwapSeparator(i, c)
    \/ \E i \in 1..MaxTitleLen, c \in TitleSeps : GrowRun(i, c)
    \/ \E atEnd \in BOOLEAN, c \in TitleSeps : PadEnds(atEnd, c)
    \/ NormTitle
SpecTitle == TitleInit /\ [][TitleNext]_vars

\* C16: the key of the rewritten title is the key of the title it came
\* from; the key holds only a-z and 0-9 with single spaces between them and
\* none at its ends; normalizing the key gives the key.
C16_TitleKeyStable ==
    probe.key # NotCalled =>
      /\ probe.key = normalizeTitle(probe.orig)
      /\ \A i \in DOMAIN probe.key :
           /\ probe.key[i] \in LowerAlnum \cup {" "}
           /\ probe.key[i] = " " => (/\ 1 < i /\ i < Len(probe.key)
                                     /\ probe.key[i + 1] # " ")
      /\ normalizeTitle(probe.key) = probe.key
\* a title with another case, a brace inside a word and a longer separator
\* run than the one it came from, with the same key of two words
C16_Witness ==
    /\ probe.key # NotCalled
    /\ Len(probe.cur) > Len(probe.orig)
    /\ toLowerCase(probe.cur) # toLowerCase(probe.orig)
    /\ \E i \in DOMAIN probe.cur : probe.cur[i] \in TitleBraces
    /\ \E i \in 1..(Len(probe.cur) - 1) :
         probe.cur[i] \in TitleSeps /\ probe.cur[i + 1] \in TitleSeps
    /\ \E i \in DOMAIN probe.key : probe.key[i] = " "
    /\ probe.key = normalizeTitle(probe.orig)

(***************************************************************************)
(* getBibField on its own: an entry is written out from a list of fields,  *)
(* each a name, a style (brace, quote, bare) and a value; it goes through  *)
(* splitBibEntries and getBibField is called on it, twice.                 *)
(***************************************************************************)
MaxFields == 2
FieldNames == { <<"t","i","t","l","e">>, <<"Y","e","a","r">> }
QueryNames == { <<"T","I","T","L","E">>, <<"d","o","i">> }
NestedValue == <<"a"," ","{","B","}"," ","c">>
BraceValues == { <<"x">>, NestedValue, <<>> }
QuoteValues == { <<"y">> }
BareValues == { <<"z">> }
FieldChoices ==
    [name : FieldNames, style : {"brace"}, value : BraceValues]
    \cup [name : FieldNames, style : {"quote"}, value : QuoteValues]
    \cup [name : FieldNames, style : {"bare"}, value : BareValues]
FieldLists == UNION {[1..n -> FieldChoices] : n \in 0..MaxFields}

renderField(f) ==
    <<" ">> \o f.name \o <<" ", "=", " ">>
    \o (IF f.style = "brace" THEN <<"{">> \o f.value \o <<"}">>
        ELSE IF f.style = "quote" THEN <<"\"">> \o f.value \o <<"\"">>
        ELSE f.value)
RECURSIVE renderFields(_, _, _)
renderFields(fs, n, lastComma) ==
    IF n > Len(fs) THEN <<>>
    ELSE renderField(fs[n]) \o (IF n < Len(fs) \/ lastComma THEN <<",">> ELSE <<>>)
         \o renderFields(fs, n + 1, lastComma)
renderEntry(fs, lastComma) == <<"@","a","{","k",",">> \o renderFields(fs, 1, lastComma) \o <<"}">>

FieldInit ==
    /\ probe \in [fields : FieldLists, lastComma : BOOLEAN, name : QueryNames,
                  out : {NotCalled}, again : {NotCalled}]
    /\ BIB_TEXT = <<>>
    /\ BIB_INDEX = NULL
    /\ PureFrame

\* the entry the splitter returns for the text written out
probeEntry == splitBibEntries(renderEntry(probe.fields, probe.lastComma))[1]

\* getBibField(entry, name)
GetField ==
    /\ probe.out = NotCalled
    /\ probe' = [probe EXCEPT !.out = getBibField(probeEntry, probe.name)]
    /\ UNCHANGED <<coreVars, pick>>

\* getBibField(entry, name), once more
GetFieldAgain ==
    /\ probe.out # NotCalled
    /\ probe.again = NotCalled
    /\ probe' = [probe EXCEPT !.again = getBibField(probeEntry, probe.name)]
    /\ UNCHANGED <<coreVars, pick>>

FieldNext == GetField \/ GetFieldAgain
SpecField == FieldInit /\ [][FieldNext]_vars

\* the fields of the entry written out that carry the name asked for
Named == {n \in DOMAIN probe.fields :
            toLowerCase(probe.fields[n].name) = toLowerCase(probe.name)}
Braced == {n \in Named : probe.fields[n].style = "brace"}
Quoted == {n \in Named : probe.fields[n].style = "quote"}
\* a bare value counts when a comma follows it
Bared == {n \in Named : /\ probe.fields[n].style = "bare"
                        /\ (n < Len(probe.fields) \/ probe.lastComma)}
FirstOf(S) == CHOOSE n \in S : \A m \in S : n <= m
ValueOfFirst(S) == probe.fields[FirstOf(S)].value

C18_NestedBraceValue ==
    (probe.out # NotCalled /\ Braced # {}) => probe.out = ValueOfFirst(Braced)

\* C19: a name that occurs in the entry as a field, with a value written
\* after the '=', gets a non-empty result.
C19_PresentFieldNonEmpty ==
    (/\ probe.out # NotCalled
     /\ Named # {}
     /\ \A n \in Named : probe.fields[n].value # <<>>)
    => probe.out # <<>>

(***************************************************************************)
(* bibtexFromPub on its own: a record without DOI is synthesized, the text *)
(* is split again and its title and year are read back.                    *)
(***************************************************************************)
MaxSynthLen == 3
SynthChars == {"a", "{", "}", "@"}
SynthTitles == UNION {[1..n -> SynthChars] : n \in 1..MaxSynthLen}
SynthAuthors == { Undefined, <<"x">>, <<"y","}">> }
SynthPubs ==
    [id : {<<"p">>}, title : SynthTitles, authors : SynthAuthors, year : {<<"2","0","2","0">>}, doi : {Undefined}]

SynthInit ==
    /\ probe \in [pub : SynthPubs, out : {NotCalled}, parts : {NotCalled}, back : {NotCalled}]
    /\ BIB_TEXT = <<>>
    /\ BIB_INDEX = NULL
    /\ PureFrame

\* bibtexFromPub(pub)
Synthesize ==
    /\ probe.out = NotCalled
    /\ probe' = [probe EXCEPT !.out = bibtexFromPub(probe.pub)]
    /\ UNCHANGED <<coreVars, pick>>

\* splitBibEntries(bibtexFromPub(pub))
Resplit ==
    /\ probe.out # NotCalled
    /\ probe.parts = NotCalled
    /\ probe' = [probe EXCEPT !.parts = splitBibEntries(probe.out)]
    /\ UNCHANGED <<coreVars, pick>>

\* getBibField(entry, 'title'), getBibField(entry, 'year') on the first part
ReadBack ==
    /\ probe.parts # NotCalled
    /\ probe.parts # <<>>
    /\ probe.back = NotCalled
    /\ probe' = [probe EXCEPT !.back = <<getBibField(probe.parts[1], fTitle),
                                        getBibField(probe.parts[1], fYear)>>]
    /\ UNCHANGED <<coreVars, pick>>

SynthNext == Synthesize \/ Resplit \/ ReadBack
SpecSynth == SynthInit /\ [][SynthNext]_vars

\* C20: the synthesized text splits into exactly one entry, the text itself,
\* and the record's title and year are read back from it.
C20_SynthesizedRoundTrip ==
    /\ probe.parts # NotCalled => probe.parts = <<probe.out>>
    /\ probe.back # NotCalled =>
         probe.back = <<probe.pub.title, probe.pub.year>>

(***************************************************************************)
(* bibtexFromPub over records with missing, empty and present fields: the  *)
(* text is synthesized, then cut into its lines and its key.               *)
(***************************************************************************)
MaxOver == 2
\* a title of SlugMax - 1 + k letters
LongTitle(k) == [i \in 1..(SlugMax - 1 + k) |-> "a"]
PubTitles ==
    { Undefined, <<>>, <<"A","b"," ","c">>, <<"-","!">> } \cup { LongTitle(k) : k \in 0..MaxOver }
PubAuthors == { Undefined, <<>>, <<"x">> }
PubYears == { Undefined, <<>>, <<"2","0","2","0">> }
PubDois == { Undefined, <<>>, <<"1","0",".","1","/","x">>, <<"d","o","i",":"," ">> }
PubRecords ==
    [id : {<<"p">>}, title : PubTitles, authors : PubAuthors, year : PubYears, doi : PubDois]

PubInit ==
    /\ probe \in [pub : PubRecords, out : {NotCalled}, lines : {NotCalled}, key : {NotCalled}]
    /\ BIB_TEXT = <<>>
    /\ BIB_INDEX = NULL
    /\ PureFrame

\* s.split(ch): the pieces between the occurrences of ch
splitOn(s, ch) ==
    LET at == {i \in 1..Len(s) : s[i] = ch}
        cut(k) == IF k = 0 THEN 0
                  ELSE IF k > Cardinality(at) THEN Len(s) + 1
                  ELSE CHOOSE p \in at : Cardinality({q \in at : q < p}) = k - 1
    IN  [k \in 1..(Cardinality(at) + 1) |-> slice(s, cut(k - 1), cut(k) - 1)]

\* bibtexFromPub(pub)
PubSynthesize ==
    /\ probe.out = NotCalled
    /\ probe' = [probe EXCEPT !.out = bibtexFromPub(probe.pub)]
    /\ UNCHANGED <<coreVars, pick>>

\* the lines of the synthesized text
PubLines ==
    /\ probe.out # NotCalled
    /\ probe.lines = NotCalled
    /\ probe' = [probe EXCEPT !.lines = splitOn(probe.out, "\n")]
    /\ UNCHANGED <<coreVars, pick>>

\* the key: what stands between '@article{' and the ',' that ends line one
PubKey ==
    /\ probe.lines # NotCalled
    /\ probe.key = NotCalled
    /\ probe' = [probe EXCEPT !.key = slice(probe.lines[1], 9, Len(probe.lines[1]) - 1)]
    /\ UNCHANGED <<coreVars, pick>>

PubNext == PubSynthesize \/ PubLines \/ PubKey
SpecPub == PubInit /\ [][PubNext]_vars

\* a line '  name = {...},' is among the lines
HasLine(lines, name) ==
    \E i \in 1..Len(lines) :
        startsWith(lines[i], <<" "," ">> \o name \o <<" ","="," ","{">>)
fAuthor == <<"a","u","t","h","o","r">>

\* C21: the synthesized entry has a title, author, year or doi line exactly
\* when the record's title, authors, year or normalized DOI is non-empty; a
\* record with a missing or empty title yields no title line.
C21_LineIffValue ==
    probe.lines # NotCalled =>
        /\ HasLine(probe.lines, fTitle) <=> Truthy(probe.pub.title)
        /\ HasLine(probe.lines, fAuthor) <=> Truthy(probe.pub.authors)
        /\ HasLine(probe.lines, fYear) <=> Truthy(probe.pub.year)
        /\ HasLine(probe.lines, fDoi) <=> normDOI(OrEmpty(probe.pub.doi)) # <<>>

\* the part of C21 that holds: the three optional lines
C21_OptionalLines ==
    probe.lines # NotCalled =>
        /\ HasLine(probe.lines, fTitle)
        /\ HasLine(probe.lines, fAuthor) <=> Truthy(probe.pub.authors)
        /\ HasLine(probe.lines, fYear) <=> Truthy(probe.pub.year)
        /\ HasLine(probe.lines, fDoi) <=> normDOI(OrEmpty(probe.pub.doi)) # <<>>

\* the slug of a title is empty: no letter or digit in it
SlugEmpty(title) ==
    \A i \in 1..Len(OrEmpty(title)) : toLowerCaseChar(OrEmpty(title)[i]) \notin LowerAlnum
Citation == <<"c","i","t","a","t","i","o","n">>

\* C23: whenever the slug of the record's title is empty the key is the
\* word "citation", with or without a year; the key never exceeds 60
\* characters.
C23_EmptySlugKey ==
    probe.key # NotCalled =>
        /\ SlugEmpty(probe.pub.title) => probe.key = Citation
        /\ Len(probe.key) <= SlugMax

\* the part of C23 that holds: the length limit, and the word "citation"
\* when there is no year either
C23_KeyWithoutYear ==
    probe.key # NotCalled =>
        /\ SlugEmpty(probe.pub.title) /\ ~Truthy(probe.pub.year) => probe.key = Citation
        /\ SlugEmpty(probe.pub.title) /\ Truthy(probe.pub.year) =>
               probe.key = probe.pub.year \o <<"-">>
        /\ Len(probe.key) <= SlugMax
        /\ Len(OrEmpty(probe.pub.title)) > SlugMax => Len(probe.key) = SlugMax

(***************************************************************************)
(* buildBibIndex over bibliographies with duplicate keys: six entries,     *)
(* among them two spellings of the DOI d1, two of the DOI d2 and three of  *)
(* the title "ab", put together in every order.                            *)
(***************************************************************************)
MaxDupEntries == 3
DupEntryTexts ==
    { <<"@","a","{","k",",","d","o","i","=","{","d","1","}",",","t","i","t","l","e","=","{","a","b","}",",","}">>,
      <<"@","a","{","k",",","D","O","I","=","{","D","1",".","}",",","t","i","t","l","e","=","{","c","d","}",",","}">>,
      <<"@","a","{","k",",","d","o","i","=","{","d","2","}",",","t","i","t","l","e","=","{","A","B","!","}",",","}">>,
      <<"@","a","{","k",",","d","o","i","=","{","d","2","}",",","}">>,
      <<"@","a","{","k",",","t","i","t","l","e","=","{","a","b","}",",","}">>,
      <<"@","a","{","k",",","}">> }
DupTexts == UNION {TextsOf(DupEntryTexts, n) : n \in 0..MaxDupEntries}

DupInit ==
    /\ BIB_TEXT \in DupTexts
    /\ BIB_INDEX = NULL
    /\ probe = NoProbe
    /\ PureFrame

SpecDup == DupInit /\ [][BuildIndex]_vars

\* the position of the first and of the last entry that normalizes to k
FirstAt(entries, key(_), k) ==
    CHOOSE i \in DOMAIN entries :
        key(entries[i]) = k /\ \A j \in DOMAIN entries : key(entries[j]) = k => i <= j
LastAt(entries, key(_), k) ==
    CHOOSE i \in DOMAIN entries :
        key(entries[i]) = k /\ \A j \in DOMAIN entries : key(entries[j]) = k => j <= i
\* m holds, in the order of their first occurrence, the non-empty keys of
\* the entries, each with the last entry that has it
LastWinsInPlace(m, entries, key(_)) ==
    /\ {m[i].key : i \in DOMAIN m} = {key(entries[j]) : j \in DOMAIN entries} \ {<<>>}
    /\ \A i, j \in DOMAIN m :
         i < j => FirstAt(entries, key, m[i].key) < FirstAt(entries, key, m[j].key)
    /\ \A i \in DOMAIN m : m[i].val = entries[LastAt(entries, key, m[i].key)]

\* C24: when several entries normalize to the same DOI (title) key, the map
\* holds the last of them in source order under that key, the key stays at
\* the iteration position of its first insertion, and BIB_INDEX.entries
\* holds all entries in source order.
C24_LastWinsFirstPosition ==
    BIB_INDEX # NULL =>
        /\ BIB_INDEX[1].entries = splitBibEntries(BIB_TEXT)
        /\ LastWinsInPlace(BIB_INDEX[1].byDOI, BIB_INDEX[1].entries, entryDoiKey)
        /\ LastWinsInPlace(BIB_INDEX[1].byTitle, BIB_INDEX[1].entries, entryTitleKey)
\* three different entries with the DOI keys d1, d2, d1: the map iterates
\* d1 first and holds the third entry under it
C24_Witness ==
    /\ BIB_INDEX # NULL
    /\ Len(BIB_INDEX[1].entries) = 3
    /\ entryDoiKey(BIB_INDEX[1].entries[1]) = <<"d","1">>
    /\ entryDoiKey(BIB_INDEX[1].entries[2]) = <<"d","2">>
    /\ entryDoiKey(BIB_INDEX[1].entries[3]) = <<"d","1">>
    /\ BIB_INDEX[1].entries[1] # BIB_INDEX[1].entries[3]
    /\ Len(BIB_INDEX[1].byDOI) = 2
    /\ BIB_INDEX[1].byDOI[1] = [key |-> <<"d","1">>, val |-> BIB_INDEX[1].entries[3]]

(***************************************************************************)
(* The APA formatter: splitBibAuthors, nameToApa, formatAuthorsAPA,        *)
(* sentenceCase, pagesNormalize, formatDOIUrl and apaFromBibtexEntry.      *)
(* Letters are ASCII, as everywhere in this module.                        *)
(***************************************************************************)
toUpperCaseChar(c) == IF c \in LowerSet THEN UpperOf[c] ELSE c
\* the two characters outside ASCII that the formatter writes
Ellipsis == "U+2026"
EnDash == "U+2013"

\* s.split(/\s+/).filter(Boolean): the maximal runs without whitespace
RECURSIVE words(_, _)
words(s, cur) ==
    IF s = <<>> THEN (IF cur = <<>> THEN <<>> ELSE <<cur>>)
    ELSE IF Head(s) \in SpaceChars
         THEN (IF cur = <<>> THEN <<>> ELSE <<cur>>) \o words(Tail(s), <<>>)
         ELSE words(Tail(s), Append(cur, Head(s)))

\* arr.filter(Boolean) on an array of strings
RECURSIVE filterNonEmpty(_)
filterNonEmpty(arr) ==
    IF arr = <<>> THEN <<>>
    ELSE (IF Head(arr) = <<>> THEN <<>> ELSE <<Head(arr)>>) \o filterNonEmpty(Tail(arr))

\* a match of /\s+and\s+/i starts at i (0-based)
andAt(s, i) ==
    /\ At(s, i) \in SpaceChars
    /\ LET j == skipSpace(s, i)
       IN  /\ toLowerCase(slice(s, j, j + 3)) = <<"a","n","d">>
           /\ Len(s) >= j + 3
           /\ At(s, j + 3) \in SpaceChars
\* s.split(/\s+and\s+/i), from position from on
RECURSIVE splitAnd(_, _)
splitAnd(s, from) ==
    LET hits == {i \in from..(Len(s) - 1) : andAt(s, i)}
    IN  IF hits = {} THEN <<slice(s, from, Len(s))>>
        ELSE LET i == CHOOSE h \in hits : \A g \in hits : h <= g
             IN  <<slice(s, from, i)>> \o splitAnd(s, skipSpace(s, skipSpace(s, i) + 3))

splitBibAuthors(s) ==
    IF s = <<>> THEN <<>>
    ELSE LET parts == splitAnd(s, 0)
         IN  filterNonEmpty([k \in DOMAIN parts |-> trim(removeChars(parts[k], {"{", "}"}))])

\* chunk.split('-').filter(Boolean).map(p => (p[0]||'').toUpperCase()+'.').join('-')
initialsOf(chunk) ==
    LET ps == filterNonEmpty(splitOn(chunk, "-"))
    IN  join([k \in DOMAIN ps |-> <<toUpperCaseChar(ps[k][1]), ".">>], <<"-">>)

nameToApa(n) ==
    LET byComma == splitOn(n, ",")
        ws      == words(n, <<>>)
        last    == IF Len(byComma) > 1 THEN trim(byComma[1])
                   ELSE IF ws = <<>> THEN <<>> ELSE ws[Len(ws)]
        rest    == IF Len(byComma) > 1 THEN trim(byComma[2])
                   ELSE IF ws = <<>> THEN <<>> ELSE join(SubSeq(ws, 1, Len(ws) - 1), <<" ">>)
        chunks  == words(rest, <<>>)
        initials == join([k \in DOMAIN chunks |-> initialsOf(chunks[k])], <<" ">>)
    IN  trim(IF last # <<>>
             THEN last \o (IF initials # <<>> THEN <<",", " ">> \o initials ELSE <<>>)
             ELSE n)

\* the separator before the last of 2..20 names
AmpJoin == <<",", " ", "&", " ">>
AuthorCap == 20
formatAuthorsAPA_plainAmp(authors) ==
    LET A == [k \in DOMAIN authors |-> nameToApa(authors[k])]
    IN  IF Len(A) = 0 THEN <<>>
        ELSE IF Len(A) <= AuthorCap
             THEN (IF Len(A) = 1 THEN A[1]
                   ELSE join(SubSeq(A, 1, Len(A) - 1), <<",", " ">>) \o <<" ", "&", " ">> \o A[Len(A)])
        ELSE join(SubSeq(A, 1, AuthorCap - 1), <<",", " ">>) \o <<",", " ", Ellipsis, ",", " ">> \o A[Len(A)]
formatAuthorsAPA(authors) ==
    LET A == [k \in DOMAIN authors |-> nameToApa(authors[k])]
    IN  IF Len(A) = 0 THEN <<>>
        ELSE IF Len(A) <= AuthorCap
             THEN (IF Len(A) = 1 THEN A[1]
                   ELSE join(SubSeq(A, 1, Len(A) - 1), <<",", " ">>) \o AmpJoin \o A[Len(A)])
        ELSE join(SubSeq(A, 1, AuthorCap - 1), <<",", " ">>) \o <<",", " ", Ellipsis, ",", " ">> \o A[Len(A)]

\* .replace(/^{|}$/g, '')
stripOuterBraces(s) ==
    LET a == IF s # <<>> /\ Head(s) = "{" THEN Tail(s) ELSE s
    IN  IF a # <<>> /\ a[Len(a)] = "}" THEN SubSeq(a, 1, Len(a) - 1) ELSE a
\* .replace(/\.\s*$/, '')
stripTrailingPeriod(s) ==
    LET u == trimEnd(s)
    IN  IF u # <<>> /\ u[Len(u)] = "." THEN SubSeq(u, 1, Len(u) - 1) ELSE s

\* sentenceCase, character by character over s (1-based positions).  The
\* tokens of split(/\b/) are the maximal runs of word and of non-word
\* characters; the two replaces leave their number unchanged.
sentenceCase(t) ==
    IF t = <<>> THEN <<>>
    ELSE
    LET s == stripOuterBraces(trim(replaceRunsOf(t, SpaceChars, <<" ">>, FALSE)))
        isWord(i) == i >= 1 /\ i <= Len(s) /\ s[i] \in WordChars
        isLetter(i) == i >= 1 /\ i <= Len(s) /\ toLowerCaseChar(s[i]) \in LowerSet
        sameToken(i, j) == \A k \in i..j : isWord(k)
        \* the token of i holds two capitals in a row: it is kept verbatim
        kept(i) == \E k \in 1..(Len(s) - 1) :
                      /\ s[k] \in UpperSet /\ s[k + 1] \in UpperSet
                      /\ (IF k <= i THEN sameToken(k, i) ELSE sameToken(i, k + 1))
        \* a match of /:\s*([a-z])/ ends at i
        afterColon(i) == \E j \in 1..(i - 1) :
                            s[j] = ":" /\ \A k \in (j + 1)..(i - 1) : s[k] \in SpaceChars
        \* a match of /:\s*([a-z])/ starts at the colon j
        colonHit(j) == s[j] = ":" /\ isLetter(skipSpace(s, j) + 1)
        outAt(i) ==
            IF isWord(i)
            THEN (IF kept(i) THEN <<s[i]>>
                  ELSE IF isLetter(i) /\ (i = 1 \/ afterColon(i))
                       THEN <<toUpperCaseChar(toLowerCaseChar(s[i]))>>
                       ELSE <<toLowerCaseChar(s[i])>>)
            ELSE IF colonHit(i) THEN <<":", " ">>
            ELSE IF s[i] \in SpaceChars /\ isLetter(i + 1) /\ afterColon(i + 1) THEN <<>>
            ELSE <<s[i]>>
    IN  stripTrailingPeriod(join([i \in 1..Len(s) |-> outAt(i)], <<>>))

\* .replace(/--?/g, EnDash)
RECURSIVE dashes(_)
dashes(s) ==
    IF s = <<>> THEN <<>>
    ELSE IF Head(s) = "-"
         THEN <<EnDash>> \o dashes(IF Len(s) > 1 /\ s[2] = "-" THEN Tail(Tail(s)) ELSE Tail(s))
         ELSE <<Head(s)>> \o dashes(Tail(s))
pagesNormalize(p) == dashes(removeChars(trim(p), SpaceChars))

formatDOIUrl(doiRaw) ==
    LET d == normDOI(doiRaw)
    IN  IF d # <<>> THEN <<"h","t","t","p","s",":","/","/","d","o","i",".","o","r","g","/">> \o d ELSE <<>>

\* (s).match(/\d{4}/)?.[0]: the first four digits in a row, or NoMatch
firstFourDigits(s) ==
    LET hits == {i \in 1..(Len(s) - 3) : \A k \in i..(i + 3) : s[k] \in DigitChars}
    IN  IF hits = {} THEN NoMatch
        ELSE LET i == CHOOSE h \in hits : \A g \in hits : h <= g IN SubSeq(s, i, i + 3)

\* a || b on strings
Or(a, b) == IF a # <<>> THEN a ELSE b

fDate == <<"d","a","t","e">>
fJournal == <<"j","o","u","r","n","a","l">>
fJournaltitle == <<"j","o","u","r","n","a","l","t","i","t","l","e">>
fVolume == <<"v","o","l","u","m","e">>
fNumber == <<"n","u","m","b","e","r">>
fIssue == <<"i","s","s","u","e">>
fPages == <<"p","a","g","e","s">>
fEid == <<"e","i","d">>
fArtNumber == <<"a","r","t","_","n","u","m","b","e","r">>
fArticleNumber == <<"a","r","t","i","c","l","e","-","n","u","m","b","e","r">>
fArtnum == <<"a","r","t","n","u","m">>
fUrl == <<"u","r","l">>
fPublisher == <<"p","u","b","l","i","s","h","e","r">>

\* what apaFromBibtexEntry reads from the entry, by the names of its consts
apaParts(entry) ==
    LET yearRaw == Or(getBibField(entry, fYear), getBibField(entry, fDate))
        y       == firstFourDigits(yearRaw)
        eLoc    == Or(getBibField(entry, fEid), Or(getBibField(entry, fArtNumber),
                      Or(getBibField(entry, fArticleNumber), getBibField(entry, fArtnum))))
        pages0  == getBibField(entry, fPages)
        urlField == getBibField(entry, fUrl)
    IN  [authors |-> formatAuthorsAPA(splitBibAuthors(getBibField(entry, fAuthor))),
         year    |-> IF y # NoMatch THEN y ELSE <<"n", ".", "d", ".">>,
         title   |-> sentenceCase(getBibField(entry, fTitle)),
         journal |-> Or(getBibField(entry, fJournal), getBibField(entry, fJournaltitle)),
         volume  |-> getBibField(entry, fVolume),
         issue   |-> Or(getBibField(entry, fNumber), getBibField(entry, fIssue)),
         pages   |-> IF pages0 = <<>> /\ eLoc # <<>> THEN eLoc ELSE pages0,
         publisher |-> getBibField(entry, fPublisher),
         doiUrl  |-> formatDOIUrl(Or(getBibField(entry, fDoi), Or(getBibField(entry, fDOI),
                        IF includes(toLowerCase(urlField), <<"d","o","i",".","o","r","g">>)
                        THEN urlField ELSE <<>>)))]

\* the venue tail
apaTail(p) ==
    IF p.journal # <<>>
    THEN p.journal
         \o (IF p.volume # <<>>
             THEN <<",", " ">> \o p.volume
                  \o (IF p.issue # <<>> THEN <<"(">> \o p.issue \o <<")">> ELSE <<>>)
             ELSE <<>>)
         \o (IF p.pages # <<>> THEN <<",", " ">> \o pagesNormalize(p.pages) ELSE <<>>)
         \o <<".">>
    ELSE IF p.publisher # <<>> THEN p.publisher \o <<".">> ELSE <<>>

\* head, tail and ref, from what was read
apaAssemble(p) ==
    LET head == join(filterNonEmpty(<<p.authors, <<"(">> \o p.year \o <<")", ".">>,
                                      p.title \o <<".">> >>), <<" ">>)
        ref0 == trim(replaceRunsOf(join(filterNonEmpty(<<head, apaTail(p)>>), <<" ">>),
                                   SpaceChars, <<" ">>, FALSE))
    IN  IF p.doiUrl # <<>>
        THEN stripTrailingPeriod(ref0) \o <<".", " ">> \o p.doiUrl
        ELSE ref0

apaFromBibtexEntry(entry) == apaAssemble(apaParts(entry))

(***************************************************************************)
(* formatAuthorsAPA on lists of names that are already in APA form, from   *)
(* the empty list to lists longer than the truncation limit.               *)
(***************************************************************************)
MaxAuthors == 22
NamePool == << <<"A","b",","," ","C",".">>, <<"D","e">>, <<"F","g",","," ","H",".","-","I",".">> >>
\* n names: the pool walked from off in steps of stride
NameList(n, off, stride) == [i \in 1..n |-> NamePool[((off + i * stride) % Len(NamePool)) + 1]]
AuthorLists ==
    { NameList(n, off, stride) : n \in 0..MaxAuthors, off \in 0..(Len(NamePool) - 1), stride \in 1..2 }

AuthorsInit ==
    /\ probe \in [names : AuthorLists, out : {NotCalled}]
    /\ BIB_TEXT = <<>>
    /\ BIB_INDEX = NULL
    /\ PureFrame

\* formatAuthorsAPA(names)
FormatAuthors ==
    /\ probe.out = NotCalled
    /\ probe' = [probe EXCEPT !.out = formatAuthorsAPA(probe.names)]
    /\ UNCHANGED <<coreVars, pick>>

SpecAuthors == AuthorsInit /\ [][FormatAuthors]_vars

\* the result the claim describes, with sep before the last of 2..20 names
AuthorsJoined(names, sep) ==
    LET n == Len(names)
    IN  IF n = 0 THEN <<>>
        ELSE IF n = 1 THEN names[1]
        ELSE IF n <= 20
             THEN join(SubSeq(names, 1, n - 1), <<",", " ">>) \o sep \o names[n]
        ELSE join(SubSeq(names, 1, 19), <<",", " ">>) \o <<",", " ", Ellipsis, ",", " ">> \o names[n]

\* C25 as stated: one name is returned unchanged; 2 to 20 names are all
\* returned in order, joined by ", " with the last attached by " & "; more
\* than 20 give the first 19, then ", ..., " (an ellipsis), then the last
\* name; no name gives the empty string.
C25_AmpersandOnly ==
    probe.out # NotCalled => probe.out = AuthorsJoined(probe.names, <<" ", "&", " ">>)

\* C25, amended: the same, with the last of 2 to 20 names attached by
\* ", & " (a comma before the ampersand).
C25_CommaAmpersand ==
    probe.out # NotCalled =>
        /\ probe.out = AuthorsJoined(probe.names, <<",", " ", "&", " ">>)
        /\ Len(probe.names) > 20 => ~includes(probe.out, <<"&">>)
\* twenty names, the most that are all printed, with the ampersand
C25_Witness ==
    /\ probe.out # NotCalled
    /\ Len(probe.names) = 20
    /\ includes(probe.out, <<",", " ", "&", " ">> \o probe.names[20])
\* more than twenty names are truncated
C25_Truncated ==
    /\ probe.out # NotCalled
    /\ Len(probe.names) > 20
    /\ includes(probe.out, <<Ellipsis>>)

(***************************************************************************)
(* apaFromBibtexEntry over entries that hold any subset of the fields it   *)
(* reads.  A field of the record below is <<>> when the entry does not     *)
(* have it, and its value otherwise.                                       *)
(***************************************************************************)
ApaFieldSets ==
    [author : {<<>>, <<"A","l"," ","B">>},
     year : {<<>>, <<"2","0","2","0">>, <<"i","n"," ","p","r","e","s","s">>},
     date : {<<>>, <<"1","9","9","9","-","0","1">>},
     title : {<<>>, <<"T","i">>},
     journal : {<<>>, <<"J">>},
     volume : {<<>>, <<"4">>},
     number : {<<>>, <<"5">>},
     pages : {<<>>, <<"1","-","9">>},
     eid : {<<>>, <<"e","1">>},
     publisher : {<<>>, <<"P">>},
     doi : {<<>>, <<"1","0",".","1","/","x">>}]
\* the fields in the order they are written
apaFieldList(f) ==
    << <<fAuthor, f.author>>, <<fYear, f.year>>, <<fDate, f.date>>, <<fTitle, f.title>>, <<fJournal, f.journal>>, <<fVolume, f.volume>>, <<fNumber, f.number>>, <<fPages, f.pages>>, <<fEid, f.eid>>, <<fPublisher, f.publisher>>, <<fDoi, f.doi>> >>
RECURSIVE writeFields(_)
writeFields(fl) ==
    IF fl = <<>> THEN <<>>
    ELSE (IF Head(fl)[2] = <<>> THEN <<>>
          ELSE Head(fl)[1] \o <<"=", "{">> \o Head(fl)[2] \o <<"}", ",">>)
         \o writeFields(Tail(fl))
apaEntry(f) == <<"@","a","{","k",",">> \o writeFields(apaFieldList(f)) \o <<"}">>

ApaInit ==
    /\ probe \in [fields : ApaFieldSets, parts : {<<>>}, tail : {NotCalled}, out : {NotCalled}]
    /\ BIB_TEXT = <<>>
    /\ BIB_INDEX = NULL
    /\ PureFrame

\* apaFromBibtexEntry(entry), first half: the consts read from the entry
ApaRead ==
    /\ probe.parts = <<>>
    /\ probe' = [probe EXCEPT !.parts = <<apaParts(apaEntry(probe.fields))>>]
    /\ UNCHANGED <<coreVars, pick>>

\* apaFromBibtexEntry(entry), second half: tail and the returned ref
ApaAssemble ==
    /\ probe.parts # <<>>
    /\ probe.out = NotCalled
    /\ probe' = [probe EXCEPT !.tail = apaTail(probe.parts[1]),
                              !.out = apaAssemble(probe.parts[1])]
    /\ UNCHANGED <<coreVars, pick>>

ApaNext == ApaRead \/ ApaAssemble
SpecApa == ApaInit /\ [][ApaNext]_vars

\* the reference assembled from the present parts alone: a part that is
\* empty adds neither text nor punctuation
apaOmitting(p) ==
    LET head == join(filterNonEmpty(<<p.authors, <<"(">> \o p.year \o <<")", ".">>,
                                      IF p.title # <<>> THEN p.title \o <<".">> ELSE <<>> >>),
                     <<" ">>)
        ref0 == join(filterNonEmpty(<<head, apaTail(p)>>), <<" ">>)
    IN  IF p.doiUrl # <<>>
        THEN stripTrailingPeriod(ref0) \o <<".", " ">> \o p.doiUrl
        ELSE ref0

\* C22: apaFromBibtexEntry returns a string for every subset of its fields,
\* and a field that is absent adds nothing to it, neither text nor
\* separator punctuation (the year's "n.d." excepted).
C22_AbsentFieldAddsNothing ==
    probe.out # NotCalled =>
        /\ probe.out # Thrown
        /\ probe.out = apaOmitting(probe.parts[1])

\* the part of C22 that holds: every absent field but the title
C22_AbsentButTitle ==
    probe.out # NotCalled /\ probe.fields.title # <<>> =>
        /\ probe.out # Thrown
        /\ probe.out = apaOmitting(probe.parts[1])

\* the year the claim describes: from year, else from date, else "n.d."
yearOrDate(f) ==
    IF firstFourDigits(f.year) # NoMatch THEN firstFourDigits(f.year)
    ELSE IF firstFourDigits(f.date) # NoMatch THEN firstFourDigits(f.date)
    ELSE <<"n", ".", "d", ".">>

\* C26: the year printed is the first run of four digits of the year
\* field; when the year field has none (absent, or without four digits in a
\* row) it is that of the date field; when neither has one it is "n.d.".
C26_YearThenDate ==
    probe.out # NotCalled =>
        /\ probe.parts[1].year = yearOrDate(probe.fields)
        /\ includes(probe.out, <<"(">> \o yearOrDate(probe.fields) \o <<")", ".">>)

\* the part of C26 that holds: the date is used when the year field is
\* absent or empty
C26_DateWhenNoYear ==
    probe.out # NotCalled /\ ~(probe.fields.year # <<>> /\ firstFourDigits(probe.fields.year) = NoMatch) =>
        /\ probe.parts[1].year = yearOrDate(probe.fields)
        /\ includes(probe.out, <<"(">> \o yearOrDate(probe.fields) \o <<")", ".">>)

\* the venue tail the claim describes: each of volume, issue and pages on
\* its own
tailIndependent(f) ==
    IF f.journal # <<>>
    THEN f.journal
         \o (IF f.volume # <<>> THEN <<",", " ">> \o f.volume ELSE <<>>)
         \o (IF f.number # <<>> THEN <<"(">> \o f.number \o <<")">> ELSE <<>>)
         \o (IF f.pages # <<>> THEN <<",", " ">> \o pagesNormalize(f.pages)
             ELSE IF f.eid # <<>> THEN <<",", " ">> \o pagesNormalize(f.eid) ELSE <<>>)
         \o <<".">>
    ELSE IF f.publisher # <<>> THEN f.publisher \o <<".">> ELSE <<>>

\* C27: with a journal, the tail has the volume exactly when a volume field
\* is present, the issue in parentheses exactly when an issue field is
\* present, the pages exactly when a pages or electronic location field is
\* present, each independently of the other two; without a journal the
\* tail is the publisher alone.
C27_TailPartsIndependent ==
    probe.out # NotCalled =>
        /\ probe.fields.journal # <<>> =>
             /\ includes(probe.tail, <<",", " ">> \o probe.fields.volume) <=> probe.fields.volume # <<>>
             /\ includes(probe.tail, <<"(">> \o probe.fields.number \o <<")">>) <=> probe.fields.number # <<>>
             /\ includes(probe.tail, <<EnDash>>) <=> probe.fields.pages # <<>>
             /\ includes(probe.tail, <<"e", "1">>) <=> (probe.fields.pages = <<>> /\ probe.fields.eid # <<>>)
        /\ probe.tail = tailIndependent(probe.fields)

\* the part of C27 that holds: volume and pages on their own, the issue
\* only next to a volume
C27_IssueNeedsVolume ==
    probe.out # NotCalled =>
        probe.tail = tailIndependent([probe.fields EXCEPT
                        !.number = IF probe.fields.volume = <<>> THEN <<>> ELSE @])

\* C28: when two citation requests overlap, the modal finally shows the
\* publication clicked last (its title, citation text and id), and there
\* is never more than one overlay: the continuation of the earlier click
\* does not replace the modal that the later click has already shown.
C28_LastClickShown ==
    [][/\ Len(overlay') <= 1
       /\ \A r, r2 \in Reqs :
            (/\ r < r2
             /\ req[r].pc = "resume" /\ req'[r].pc = "done"
             /\ req[r2].pc = "done"
             /\ overlay # <<>>)
            => overlay' = overlay]_vars

\* the part of C28 that holds: one overlay at most, and it shows the record
\* of the request that resumed last
C28_LastResumeShown ==
    [][/\ Len(overlay') <= 1
       /\ \A r \in Reqs :
            (req[r].pc = "resume" /\ req'[r].pc = "done")
            => /\ overlay' # <<>>
               /\ overlay'[1].pid = PUBS[req[r].pub].id]_vars

(***************************************************************************)
(* The site search.  probe holds the state of its closure and of the page  *)
(* around it:                                                              *)
(*   content   proceedWith has run (content.json is loaded and rendered)   *)
(*   projects  window.__content_projects                                   *)
(*   pins      renderPins has run                                          *)
(*   markers   window.__collab_markers                                     *)
(*   INDEX     let INDEX: the records {kind, label, text} of rebuild       *)
(*   input     input.value                                                 *)
(*   rows      the records rendered in the dropdown, row i holding data-i  *)
(*             = i; <<>> when the dropdown is hidden                       *)
(*   clicked   the record that was rendered in the row clicked last        *)
(*   selected  the record whose select() that click ran                    *)
(***************************************************************************)
SearchLimit == 10
SectionTitles == << <<"B","i","o">>, <<"E","x","p","e","r","i","e","n","c","e">>, <<"P","r","o","j","e","c","t","s">>, <<"A","p","p","s">>, <<"T","a","l","k","s">>, <<"C","o","l","l","a","b","o","r","a","t","i","o","n","s">>, <<"P","u","b","l","i","c","a","t","i","o","n","s">> >>
\* data.projects of the content.json that is served, and the names of the
\* markers renderPins builds from the pins
ProjectChoices ==
    { <<>>,
      << [title |-> <<"S","o","l","o">>, desc |-> <<>>] >>,
      << [title |-> <<"A","t","l","a","s">>, desc |-> <<"m","a","p","s"," ","o","f"," ","O","s","l","o">>], [title |-> <<"R","i","o">>, desc |-> <<>>] >> }
MarkerChoices ==
    { << [name |-> <<"O","s","l","o">>] >>,
      << [name |-> <<"R","o","m","e">>], [name |-> <<"O","s","l","o">>] >> }
\* what the user types into the search box
SearchInputs == { <<>>, <<"o">>, <<" ","O","s">>, <<"r","o","m","e"," ">>, <<"z","z">> }

SearchStart ==
    [content |-> FALSE, projects |-> <<>>, pins |-> FALSE, markers |-> <<>>,
     INDEX |-> <<>>, input |-> <<>>, rows |-> <<>>, clicked |-> <<>>, selected |-> <<>>]

SearchInit ==
    /\ probe = SearchStart
    /\ BIB_TEXT = <<>>
    /\ BIB_INDEX = NULL
    /\ PureFrame

\* rebuild(): sections, then projects, then map markers (apps, talks and
\* publications, indexed between projects and markers, are left empty)
rebuild(projects, markers) ==
    [i \in DOMAIN SectionTitles |->
        [kind |-> "section", label |-> SectionTitles[i], text |-> toLowerCase(SectionTitles[i])]]
    \o [i \in DOMAIN projects |->
        [kind |-> "project",
         label |-> IF projects[i].title # <<>> THEN projects[i].title ELSE <<"P","r","o","j","e","c","t">>,
         text |-> toLowerCase(join(filterNonEmpty(<<projects[i].title, projects[i].desc>>), <<" ">>))]]
    \o [i \in DOMAIN markers |->
        [kind |-> "map", label |-> markers[i].name, text |-> toLowerCase(markers[i].name)]]

\* arr.filter(r => r.text && r.text.indexOf(q) !== -1)
RECURSIVE filterIndex(_, _)
filterIndex(index, q) ==
    IF index = <<>> THEN <<>>
    ELSE (IF Head(index).text # <<>> /\ includes(Head(index).text, q)
          THEN <<Head(index)>> ELSE <<>>) \o filterIndex(Tail(index), q)
\* INDEX.filter(...).slice(0, 10)
searchItems(index, q) == slice(filterIndex(index, q), 0, SearchLimit)

\* the input event: doSearch(v) for a non-empty v, hideResults() otherwise
SearchInput(v) ==
    /\ v # probe.input
    /\ LET q     == toLowerCase(trim(v))
           index == IF probe.INDEX = <<>> THEN rebuild(probe.projects, probe.markers)
                    ELSE probe.INDEX
       IN  probe' = IF q = <<>>
                    THEN [probe EXCEPT !.input = v, !.rows = <<>>]
                    ELSE [probe EXCEPT !.input = v, !.INDEX = index,
                                       !.rows = searchItems(index, q)]
    /\ UNCHANGED <<coreVars, pick>>

\* content.json has loaded: proceedWith(data) ends with SiteSearch.rebuild()
ContentLoads(projects) ==
    /\ ~probe.content
    /\ probe' = [probe EXCEPT !.content = TRUE, !.projects = projects,
                              !.INDEX = rebuild(projects, probe.markers)]
    /\ UNCHANGED <<coreVars, pick>>

\* the pins have loaded: renderPins(pins) sets window.__collab_markers
PinsRender(markers) ==
    /\ ~probe.pins
    /\ probe' = [probe EXCEPT !.pins = TRUE, !.markers = markers]
    /\ UNCHANGED <<coreVars, pick>>

\* a click on row i of the dropdown: the document click handler
ClickRow(i) ==
    /\ i < Len(probe.rows)
    /\ LET q     == toLowerCase(trim(probe.input))
           items == searchItems(probe.INDEX, q)
       IN  probe' = [probe EXCEPT !.rows = <<>>,
                                  !.clicked = <<probe.rows[i + 1]>>,
                                  !.selected = IF i < Len(items) THEN <<items[i + 1]>> ELSE <<>>]
    /\ UNCHANGED <<coreVars, pick>>

\* a click outside .header-controls: hideResults()
ClickOutside ==
    /\ probe.rows # <<>>
    /\ probe' = [probe EXCEPT !.rows = <<>>]
    /\ UNCHANGED <<coreVars, pick>>

SearchNext ==
    \/ \E v \in SearchInputs : SearchInput(v)
    \/ \E ps \in ProjectChoices : ContentLoads(ps)
    \/ \E ms \in MarkerChoices : PinsRender(ms)
    \/ \E i \in 0..(SearchLimit - 1) : ClickRow(i)
    \/ ClickOutside
SpecSearch == SearchInit /\ [][SearchNext]_vars

\* C29: a click on row i of the dropdown selects the record that was
\* rendered in that row, whatever was typed and whenever content.json
\* finished loading.
C29_ClickSelectsRenderedRow ==
    probe.clicked # <<>> => probe.selected = probe.clicked

\* the part of C29 that holds: the click selects the rendered record when
\* the index has not been rebuilt since the dropdown was rendered
C29_NoRebuildBetween ==
    [][\A i \in 0..(SearchLimit - 1) :
          (/\ i < Len(probe.rows) /\ probe'.clicked # probe.clicked
           /\ probe.rows = searchItems(probe.INDEX, toLowerCase(trim(probe.input))))
          => probe'.selected = probe'.clicked]_vars

\* C30: once content.json and the pins are both loaded and rendered, every
\* map marker is in the search index and is found by its name, whichever
\* load finished first.
C30_MarkersIndexed ==
    (probe.content /\ probe.pins) =>
        \A k \in DOMAIN probe.markers :
            LET m == [kind |-> "map", label |-> probe.markers[k].name,
                      text |-> toLowerCase(probe.markers[k].name)]
            IN  /\ m \in Range(probe.INDEX)
                /\ m \in Range(filterIndex(probe.INDEX, toLowerCase(probe.markers[k].name)))

\* the part of C30 that holds: the markers are indexed when the pins were
\* rendered before content.json arrived
C30_PinsFirst ==
    [][(probe.pins /\ ~probe.content /\ probe'.content) =>
          \A k \in DOMAIN probe'.markers :
              [kind |-> "map", label |-> probe'.markers[k].name,
               text |-> toLowerCase(probe'.markers[k].name)] \in Range(probe'.INDEX)]_vars

=============================================================================
